---- MODULE Spec2Model ----
(***************************************************************************)
(* The multi-backend data gateway with its health checks, the replication  *)
(* ("backbeat") route and bucket deletion of the S3 server:                *)
(* lib/data/wrapper.js,                                                    *)
(* lib/api/apiUtils/object/storeObject.js, lib/data/                       *)
(* multipleBackendGateway.js (src/unnamed/part_003), lib/data/external/    *)
(* GcpClient.js, lib/routes/routeBackbeat.js and lib/api/apiUtils/bucket/  *)
(* bucketDeletion.js.                                                      *)
(*                                                                         *)
(* One top-level call is in progress at a time (the server is a single     *)
(* event loop and the properties below are per request); inside a call     *)
(* every callback is its own step, so the backend answer and the end of    *)
(* the hashed stream, and the deletes of one batch, interleave freely.     *)
(***************************************************************************)
EXTENDS Integers, Sequences, FiniteSets, TLC

\* JavaScript's undefined / null / a missing header.
None == "none"

---------------------------------------------------------------------------
\* Bounds of the model.

\* top-level calls of the data wrapper in one behaviour (Spec)
MaxCalls == 3
\* replication requests in one behaviour (SpecBackbeat)
MaxRequests == 2
\* longest batch handed to batchDelete
MaxBatch == 2
\* deleteBucket and invisiblyDelete calls in one behaviour (SpecBucket)
MaxDeletes == 3
\* the parts of the object whose records one batch holds
MaxParts == 6
\* batches handed over for the parts of one object
MaxPartBatches == 1
\* versions of one key
MaxVersions == 4

---------------------------------------------------------------------------
\* Program constants.

\* wrapper.js:54
MAX_RETRY == 2

\* wrapper.js:234, the limit of async.eachLimit
DeleteLimit == 5

\* constants.externalBackends, required at wrapper.js:11 (the file is not
\* part of the sources; the spec names AWS, Azure and GCP as the external
\* stores).
externalBackends == {"aws_s3", "azure", "gcp"}

---------------------------------------------------------------------------
\* Configuration: config.locationConstraints, from which parseLC builds one
\* client per location (part_003:10) and which the replication route reads
\* (routeBackbeat.js:15).

LocNames == {"mem-test", "aws-test", "gcp-test"}

locationConstraints ==
    [n \in LocNames |->
        CASE n = "mem-test" -> [type |-> "mem", bucketName |-> None,
                                bucketMatch |-> FALSE]
          [] n = "aws-test" -> [type |-> "aws_s3", bucketName |-> "bkt1",
                                bucketMatch |-> TRUE]
          [] n = "gcp-test" -> [type |-> "gcp", bucketName |-> "bkt1",
                                bucketMatch |-> FALSE]]

\* The locations the gateway has a client for: those above, which data is
\* put to, and further ones of the same configuration.
ClientNames == LocNames \cup {"legacy", "us-east-1", "aws-test-2", "azuretest"}

\* clients of the gateway, by location name, with the type of each.
clients ==
    [name \in ClientNames |->
        [clientType |->
            CASE name \in LocNames -> locationConstraints[name].type
              [] name \in {"legacy", "us-east-1"} -> "scality"
              [] name = "aws-test-2" -> "aws_s3"
              [] name = "azuretest" -> "azure"]]

\* clients[location] of the gateway: defined exactly for the configured names.
HasClient(loc) == loc \in DOMAIN clients

clientType(loc) == locationConstraints[loc].type

\* The values a request may use.
Buckets == {"bkt1", "bkt2"}
ObjectKeys == {"k1"}
Bodies == {"", "a"}
\* a location name that is not configured
Unregistered == "nowhere"

\* MD5Sum of arsenal: the hex digest of the bytes written through the stream.
\* Without a stream there is no MD5Sum and no digest (wrapper.js:75-79).
MD5(body) ==
    CASE body = "" -> "d41d8cd98f00b204e9800998ecf8427e"
      [] body = "a" -> "0cc175b9c0f1b6a831c399e269772661"
      [] body = None -> None

Digests == {MD5(b) : b \in Bodies}

\* s3middleware.tagging.parseTagFromQuery: an Error for a malformed query.
TagQueries == {"k=v", "k==v&"}

\* A gateway that takes every tag query as it comes.
ParseTagNeverError(q) == FALSE

ParseTagIsError(q) == q = "k==v&"

---------------------------------------------------------------------------
VARIABLES
    implName,   \* wrapper.js:21, fixed by config.backends.data
    store,      \* the objects the backends hold: [loc, key]
    nextKey,    \* keys handed out so far by the in-memory backend
    records,    \* retrieval records returned by successful PUTs, not deleted
    ds,         \* the dataStore call in progress
    bd,         \* the batchDelete in progress
    bb,         \* the replication request in progress
    ncalls,     \* top-level calls started so far
    mdstore,    \* what the metadata layer and the KMS hold for one bucket
    delb,       \* the deleteBucket or invisiblyDelete call in progress
    gw,         \* the gateway call or health check in progress
    sweep,      \* an invisiblyDelete call running beside deleteBucket
    vs          \* the versions of a key, its copies, and the last request

vars == <<implName, store, nextKey, records, ds, bd, bb, ncalls, mdstore,
          delb, gw, sweep, vs>>

---------------------------------------------------------------------------
\* Backend clients.

\* GcpClient._createGcpKey: the object key alone, or "bucket/key" (held as
\* the path <<bucket, key>>).
_createGcpKey(requestBucketName, requestObjectKey, bucketMatch) ==
    IF bucketMatch THEN <<requestObjectKey>>
    ELSE <<requestBucketName, requestObjectKey>>

\* The key under which the client of location loc stores an object: the
\* cloud clients derive it from the request (GcpClient.put), the in-memory
\* backend hands out a fresh one.
ClientKey(loc, bucketName, objectKey) ==
    IF loc \in LocNames /\ clientType(loc) \in externalBackends
    THEN _createGcpKey(bucketName, objectKey,
                       locationConstraints[loc].bucketMatch)
    ELSE <<ToString(nextKey + 1)>>

Obj(loc, key) == [loc |-> loc, key |-> key]

\* The backend object a retrieval record names.
ObjOf(rec) == Obj(rec.dataStoreName, rec.key)

---------------------------------------------------------------------------
\* Records of the state.

\* "no retrieval record"
NoInfo == [key |-> <<>>, dataStoreName |-> None, dataStoreType |-> None]

\* keyContext.metaHeaders, here absent.
NoMetaHeaders ==
    [locationConstraint |-> None, replicationStatus |-> None,
     versionId |-> None]

DsIdle ==
    [pc |-> "idle", caller |-> None, loc |-> None, bucketName |-> None,
     objectKey |-> None, metaHeaders |-> NoMetaHeaders,
     tagging |-> None, body |-> None,
     contentMD5 |-> None, backend |-> None, completedHash |-> None,
     info |-> NoInfo, first |-> None, cbs |-> 0, cbBackend |-> None,
     cbHash |-> None, result |-> None]

BdIdle ==
    [pc |-> "idle", locations |-> <<>>, requestMethod |-> None,
     newObjDataStoreName |-> None, st |-> <<>>, count |-> <<>>,
     calls |-> <<>>, failed |-> FALSE, skipped |-> FALSE]

---------------------------------------------------------------------------
\* data.batchDelete and data.delete (wrapper.js).

\* wrapper.js:218-226: the overwrite-skip test, taken on locations[0].
SkipOverwrite(locations, requestMethod, newObjDataStoreName) ==
    LET isSkipBackend ==
            IF Len(locations) > 0 /\ locations[1].dataStoreType # None
            THEN locations[1].dataStoreType \in externalBackends
            ELSE FALSE
        isMatchingBackends ==
            IF Len(locations) > 0
            THEN locations[1].dataStoreName = newObjDataStoreName
            ELSE FALSE
    IN  requestMethod = "PUT" /\ isSkipBackend /\ isMatchingBackends

Min(a, b) == IF a < b THEN a ELSE b

\* async.eachLimit is over when nothing runs and nothing more will start.
EachLimitOver(st, failed) ==
    /\ \A i \in DOMAIN st : st[i] # "run"
    /\ failed \/ \A i \in DOMAIN st : st[i] # "new"

\* A batchDelete that starts the delete of every record at once.
batchDeleteAllAtOnce(locations, requestMethod, newObjDataStoreName) ==
    LET n == Len(locations)
    IN  [pc |-> IF n = 0 THEN "done" ELSE "running",
         locations |-> locations,
         requestMethod |-> requestMethod,
         newObjDataStoreName |-> newObjDataStoreName,
         st |-> [i \in 1..n |-> "run"],
         count |-> [i \in 1..n |-> 0],
         calls |-> [i \in 1..n |-> 1],
         failed |-> FALSE,
         skipped |-> FALSE]

\* data.batchDelete(locations, requestMethod, newObjDataStoreName, log):
\* the state of the batch right after the call returned.  Unless the batch
\* is skipped, eachLimit has started data.delete on the first DeleteLimit
\* entries, and each data.delete has made its first client.delete call
\* (_retryDelete with count 0).
batchDelete(locations, requestMethod, newObjDataStoreName) ==
    LET n == Len(locations)
        started == Min(DeleteLimit, n)
    IN  IF SkipOverwrite(locations, requestMethod, newObjDataStoreName)
        THEN [BdIdle EXCEPT !.pc = "done", !.locations = locations,
                            !.requestMethod = requestMethod,
                            !.newObjDataStoreName = newObjDataStoreName,
                            !.st = [i \in 1..n |-> "new"],
                            !.count = [i \in 1..n |-> 0],
                            !.calls = [i \in 1..n |-> 0],
                            !.skipped = TRUE]
        ELSE [pc |-> IF n = 0 THEN "done" ELSE "running",
              locations |-> locations,
              requestMethod |-> requestMethod,
              newObjDataStoreName |-> newObjDataStoreName,
              st |-> [i \in 1..n |-> IF i <= started THEN "run" ELSE "new"],
              count |-> [i \in 1..n |-> 0],
              calls |-> [i \in 1..n |-> IF i <= started THEN 1 ELSE 0],
              failed |-> FALSE,
              skipped |-> FALSE]

\* A retry bound that is off by one.
RetryExhaustedLate(count) == count > MAX_RETRY + 1

\* _retryDelete(objectGetInfo, log, count, cb), wrapper.js:56-59: whether
\* the attempt numbered count gives up instead of calling the client.
RetryExhausted(count) == count > MAX_RETRY

\* An eachLimit that goes on with the next entry after an error.
ReplenishAfterError(b) ==
    LET new == {j \in DOMAIN b.st : b.st[j] = "new"}
    IN  IF new = {} THEN b
        ELSE LET j == CHOOSE x \in new : \A y \in new : x <= y
             IN  [b EXCEPT !.st[j] = "run", !.calls[j] = 1]

\* eachLimit's replenish after entry i finished without error: the first
\* entry not yet started is started, unless an error was already reported.
Replenish(b) ==
    LET new == {j \in DOMAIN b.st : b.st[j] = "new"}
    IN  IF b.failed \/ new = {} THEN b
        ELSE LET j == CHOOSE x \in new : \A y \in new : x <= y
             IN  [b EXCEPT !.st[j] = "run", !.calls[j] = 1]

Settle(b) ==
    IF EachLimitOver(b.st, b.failed) THEN [b EXCEPT !.pc = "done"] ELSE b

\* The client's answer to the client.delete call outstanding for entry i
\* (wrapper.js:60-67, under data.delete of wrapper.js:188-206 and the
\* iteratee of wrapper.js:234-236).
DeleteCallback(i, ok) ==
    /\ bd.pc = "running"
    /\ i \in DOMAIN bd.st
    /\ bd.st[i] = "run"
    /\ IF ok
       THEN /\ store' = store \ {ObjOf(bd.locations[i])}
            /\ records' = records \ {bd.locations[i]}
            /\ bd' = Settle(Replenish([bd EXCEPT !.st[i] = "ok"]))
       ELSE /\ UNCHANGED <<store, records>>
            /\ IF RetryExhausted(bd.count[i] + 1)
               THEN bd' = Settle([bd EXCEPT !.st[i] = "err",
                                            !.count[i] = @ + 1,
                                            !.failed = TRUE])
               ELSE bd' = [bd EXCEPT !.count[i] = @ + 1,
                                     !.calls[i] = @ + 1]
    /\ UNCHANGED <<mdstore, delb, gw, sweep, vs>>
    /\ UNCHANGED <<implName, nextKey, ds, bb, ncalls>>

---------------------------------------------------------------------------
\* The replication request (routeBackbeat.js): its record, and what a
\* handler does when dataStore calls it back.

NoHeaders ==
    [storageType |-> None, storageClass |-> None, versionId |-> None,
     canonicalId |-> None, contentMD5 |-> None, partNumber |-> None,
     uploadId |-> None, replicationContent |-> None]

NoReply == [shape |-> None, versionId |-> None, key |-> <<>>,
            dataStoreName |-> None, uploadId |-> None, partNumber |-> None,
            ETag |-> None]

\* Reading a property of a JavaScript object: undefined when it has none.
Prop(obj, name) == IF name \in DOMAIN obj THEN obj[name] ELSE None

\* JSON.stringify of the payload of _respond (routeBackbeat.js:41-42): the
\* property names of the body (of the one element, for the list of the
\* data route); a property whose value is undefined is left out.
JSONKeys(reply) ==
    LET props ==
            CASE reply.shape = "versionId" -> {<<"versionId", reply.versionId>>}
              [] reply.shape = "locations" ->
                    {<<"key", reply.key>>,
                     <<"dataStoreName", <<reply.dataStoreName>> >>}
              [] reply.shape = "uploadId" -> {<<"uploadId", reply.uploadId>>}
              [] reply.shape = "part" ->
                    {<<"partNumber", reply.partNumber>>,
                     <<"ETag", reply.ETag>>}
              [] OTHER -> {}
    IN  {p[1] : p \in {q \in props : q[2] # None}}

\* Object metadata (the fields the route's properties speak of), here
\* empty; versioning tells a stored version from an unversioned master.
NoObjMD == [versionId |-> None, location |-> None, contentMd5 |-> None,
            versioning |-> FALSE]

\* What is kept of the request before this one, if it was a putobject
\* answered with 200: its handler, what it named, and its status.
NoPrev == [handler |-> None, bucketName |-> None, objectKey |-> None,
           storageClass |-> None, status |-> None]

BbIdle ==
    [pc |-> "idle", method |-> None, resourceType |-> None,
     bucketName |-> None, objectKey |-> None, operation |-> None,
     h |-> NoHeaders, auth |-> None, trace |-> <<>>, handler |-> None,
     gwop |-> None,
     versioning |-> None, objMdLocation |-> None,
     payload |-> NoObjMD, omVal |-> NoObjMD,
     mdPut |-> NoObjMD,
     status |-> None, reply |-> NoReply, prev |-> NoPrev]

\* _respond (routeBackbeat.js:40-51) with a payload, or responseJSONBody
\* with an error (routeBackbeat.js:485-488): the request is answered.
Respond(b, status, reply) ==
    [b EXCEPT !.pc = "done", !.status = status, !.reply = reply]

\* The callback putData (routeBackbeat.js:170-187) and putObject
\* (routeBackbeat.js:261-276) give to dataStore.
StoreCallback(b, err, retrievalInfo, md5) ==
    IF err # None THEN Respond(b, err, NoReply)
    ELSE IF b.h.contentMD5 # md5 THEN Respond(b, "BadDigest", NoReply)
    ELSE IF b.handler = "putData"
    THEN Respond(b, "200", [NoReply EXCEPT !.shape = "locations",
                                !.key = retrievalInfo.key,
                                !.dataStoreName = retrievalInfo.dataStoreName])
    ELSE Respond(b, "200",
                 [NoReply EXCEPT !.shape = "versionId",
                                 !.versionId =
                                     Prop(retrievalInfo, "dataStoreVersionId")])

---------------------------------------------------------------------------
\* dataStore (storeObject.js), data.put and _put (wrapper.js) and
\* multipleBackendGateway.put (part_003).

\* data.put calling back without waiting for the 'hashed' event.
HashReadyAlways(completedHash) == TRUE

\* wrapper.js:129: the hash of the stream is complete.
HashReady(completedHash) == completedHash # None

\* storeObject.js:22: the digest the caller announced is not the digest of
\* the bytes that were stored.
DigestMismatch(contentMD5, completedHash) ==
    contentMD5 # None /\ completedHash # None /\ contentMD5 # completedHash

\* The compensating delete issued as the delete of an overwriting PUT.
DigestDeleteAsPut(dataRetrievalInfo) ==
    batchDelete(<<dataRetrievalInfo>>, "PUT", dataRetrievalInfo.dataStoreName)

\* storeObject.js:28-30: the record just written is handed to batchDelete,
\* with neither a request method nor a new location.
DigestDelete(dataRetrievalInfo) ==
    batchDelete(<<dataRetrievalInfo>>, None, None)

\* dataStore -> data.put -> _put, up to the point where control returns to
\* the event loop: the state of the call.
\*   - multipleBackends: the gateway finds no client (the error is delivered
\*     on the next tick), or rejects the tag query at once, or calls
\*     client.put;
\*   - a single backend: client.put is called.
StartPut(caller, loc, bucketName, objectKey, tagging, body, contentMD5) ==
    LET d == [DsIdle EXCEPT !.pc = "put", !.caller = caller, !.loc = loc,
                            !.bucketName = bucketName,
                            !.objectKey = objectKey, !.tagging = tagging,
                            !.body = body, !.contentMD5 = contentMD5]
    IN  IF implName = "multipleBackends"
        THEN IF ~HasClient(loc) THEN [d EXCEPT !.backend = "noclient"]
             ELSE IF tagging # None /\ ParseTagIsError(tagging)
             THEN [d EXCEPT !.pc = "done", !.backend = "tagerr", !.cbs = 1,
                            !.cbBackend = "tagerr",
                            !.result = "InternalError"]
             ELSE [d EXCEPT !.backend = "sent"]
        ELSE [d EXCEPT !.backend = "sent", !.loc = implName]

\* data.put calls back with an error (wrapper.js:125-127), dataStore passes
\* it on (storeObject.js:57-62), and so does the route's handler.
PutFailed(d) ==
    /\ ds' = [d EXCEPT !.pc = "done", !.cbs = @ + 1, !.cbBackend = d.backend,
                       !.cbHash = d.completedHash,
                       !.result = "InternalError"]
    /\ bb' = IF d.caller \in {"api", "data.put"} THEN bb
             ELSE StoreCallback(bb, "InternalError", NoInfo, None)
    /\ UNCHANGED <<bd, records>>

\* data.put calls back with the record (wrapper.js:130 or 134), dataStore
\* runs checkHashMatchMD5 (storeObject.js:19-34, 72-73) and the caller's
\* callback runs.
PutDelivered(d) ==
    LET bad == DigestMismatch(d.contentMD5, d.completedHash)
        err == IF bad THEN "BadDigest" ELSE None
        b1  == IF d.caller \in {"api", "data.put"} THEN bb
               ELSE StoreCallback(bb, err, d.info, d.completedHash)
        returned == IF d.caller \in {"api", "data.put"} THEN ~bad
                    ELSE b1.status = "200"
    IN  /\ ds' = [d EXCEPT !.pc = "done", !.cbs = @ + 1,
                           !.cbBackend = d.backend,
                           !.cbHash = d.completedHash,
                           !.result = IF bad THEN "BadDigest" ELSE "ok"]
        /\ bd' = IF bad THEN DigestDelete(d.info) ELSE bd
        /\ bb' = b1
        /\ records' = IF returned THEN records \cup {d.info} ELSE records

\* The gateway found no client: callback(errors.InternalError) on the next
\* tick (part_003:18-25).
PutNoClient ==
    /\ ds.pc = "put"
    /\ ds.backend = "noclient"
    /\ PutFailed(ds)
    /\ UNCHANGED <<mdstore, delb, gw, sweep, vs>>
    /\ UNCHANGED <<implName, store, nextKey, ncalls>>

\* The retrieval record the put yields: part_003:54-58 through the gateway,
\* wrapper.js:113-116 on a single backend.
RetrievalInfo(loc, key) ==
    IF implName = "multipleBackends"
    THEN [key |-> key, dataStoreName |-> loc, dataStoreType |-> clientType(loc)]
    ELSE [key |-> key, dataStoreName |-> implName, dataStoreType |-> None]

\* The client answers client.put (part_003:46-63, wrapper.js:89-96 and
\* 107-118), then data.put's callback of wrapper.js:124-139.
ClientPutCallback(ok) ==
    /\ ds.pc = "put"
    /\ ds.backend = "sent"
    /\ IF ok
       THEN LET key == ClientKey(ds.loc, ds.bucketName, ds.objectKey)
                d == [ds EXCEPT !.backend = "ok",
                                !.info = RetrievalInfo(ds.loc, key),
                                !.first = IF ds.first = None
                                          THEN "backend" ELSE @]
            IN  /\ store' = store \cup {Obj(ds.loc, key)}
                /\ nextKey' = IF key = <<ToString(nextKey + 1)>>
                              THEN nextKey + 1 ELSE nextKey
                /\ IF d.body = None \/ HashReady(d.completedHash)
                   THEN PutDelivered(d)
                   ELSE /\ ds' = d
                        /\ UNCHANGED <<bd, bb, records>>
       ELSE /\ PutFailed([ds EXCEPT !.backend = "err"])
            /\ UNCHANGED <<store, nextKey>>
    /\ UNCHANGED <<mdstore, delb, gw, sweep, vs>>
    /\ UNCHANGED <<implName, ncalls>>

\* A data.put that listens for 'hashed' from the start.
HashedListenerEarly(backend) == TRUE

\* wrapper.js:124-135: the listener for 'hashed' is registered in _put's
\* callback, once the backend put has succeeded.
HashedListener(backend) == backend = "ok"

\* The stream ends and MD5Sum sets completedHash and emits 'hashed'; the
\* listener of wrapper.js:132-135 is there once the put has succeeded.
StreamHashed ==
    /\ ds.pc = "put"
    /\ ds.body # None
    /\ ds.backend \in {"sent", "ok"}
    /\ ds.completedHash = None
    /\ LET d == [ds EXCEPT !.completedHash = MD5(ds.body),
                            !.first = IF ds.first = None THEN "hash" ELSE @]
       IN  IF HashedListener(d.backend)
           THEN PutDelivered(d)
           ELSE /\ ds' = d
                /\ UNCHANGED <<bd, bb, records>>
    /\ UNCHANGED <<mdstore, delb, gw, sweep, vs>>
    /\ UNCHANGED <<implName, store, nextKey, ncalls>>

---------------------------------------------------------------------------
\* Calls of the data wrapper by the S3 request handlers.

Quiet == ds.pc = "idle" /\ bd.pc = "idle" /\ bb.pc = "idle"

\* Nothing is in flight: no call is running in any of the three slots.
NothingInFlight ==
    /\ ds.pc \in {"idle", "done"}
    /\ bd.pc \in {"idle", "done"}
    /\ bb.pc \in {"idle", "done"}

\* An object PUT reaches dataStore (storeObject.js:52-75).  The stream
\* carries the Content-MD5 of the request, if any.
DataStore ==
    /\ Quiet
    /\ ncalls < MaxCalls
    /\ \E loc \in LocNames \cup {Unregistered}, bucketName \in Buckets,
          objectKey \in ObjectKeys, tagging \in {None} \cup TagQueries,
          body \in Bodies, contentMD5 \in {None} \cup Digests :
          ds' = StartPut("api", loc, bucketName, objectKey, tagging, body,
                         contentMD5)
    /\ ncalls' = ncalls + 1
    /\ UNCHANGED <<mdstore, delb, gw, sweep, vs>>
    /\ UNCHANGED <<implName, store, nextKey, records, bd, bb>>

\* A handler calls data.put with no stream (value is null, wrapper.js:75):
\* there is no MD5Sum, and the record is handed over as soon as the
\* backend put has answered (wrapper.js:128, 138).
DataPut ==
    /\ Quiet
    /\ ncalls < MaxCalls
    /\ \E loc \in LocNames \cup {Unregistered}, bucketName \in Buckets,
          objectKey \in ObjectKeys, tagging \in {None} \cup TagQueries :
          ds' = StartPut("data.put", loc, bucketName, objectKey, tagging,
                         None, None)
    /\ ncalls' = ncalls + 1
    /\ UNCHANGED <<mdstore, delb, gw, sweep, vs>>
    /\ UNCHANGED <<implName, store, nextKey, records, bd, bb>>

\* The batches a caller may hand over: records it holds, each once.
RECURSIVE SeqsOf(_, _)
SeqsOf(S, n) ==
    IF n = 0 THEN {<<>>}
    ELSE LET shorter == SeqsOf(S, n - 1)
         IN  shorter \cup
             {Append(q, x) : q \in {r \in shorter : Len(r) = n - 1},
                             x \in S}

Batches ==
    {q \in SeqsOf(records, MaxBatch) :
        \A i, j \in DOMAIN q : i # j => q[i] # q[j]}

\* A request handler calls data.batchDelete (wrapper.js:210-245) on the
\* records of the object it replaced or removed.
BatchDelete ==
    /\ Quiet
    /\ ncalls < MaxCalls
    /\ \E locations \in Batches, requestMethod \in {"PUT", "DELETE", None},
          newObjDataStoreName \in LocNames \cup {None} :
          bd' = batchDelete(locations, requestMethod, newObjDataStoreName)
    /\ ncalls' = ncalls + 1
    /\ UNCHANGED <<mdstore, delb, gw, sweep, vs>>
    /\ UNCHANGED <<implName, store, nextKey, records, ds, bb>>

\* The location the parts of an object are on.
PartLocation == IF implName = "multipleBackends" THEN "mem-test" ELSE implName

\* The retrieval records of an object stored in MaxParts parts, in the
\* order of its metadata.
Parts ==
    [i \in 1..MaxParts |-> RetrievalInfo(PartLocation, <<ToString(i)>>)]

\* The handler of a DELETE hands batchDelete the records of the object's
\* parts that are still held (wrapper.js:210-245).
BatchDeleteParts ==
    /\ Quiet
    /\ ncalls < MaxPartBatches
    /\ LET locations == SelectSeq(Parts, LAMBDA r : r \in records)
       IN  /\ locations # <<>>
           /\ bd' = batchDelete(locations, "DELETE", None)
    /\ ncalls' = ncalls + 1
    /\ UNCHANGED <<mdstore, delb, gw, sweep, vs>>
    /\ UNCHANGED <<implName, store, nextKey, records, ds, bb>>

\* The call is over and its outcome has been handed back.
Return ==
    /\ NothingInFlight
    /\ bb.pc = "idle"
    /\ ~(ds.pc = "idle" /\ bd.pc = "idle")
    /\ ds' = DsIdle
    /\ bd' = BdIdle
    /\ UNCHANGED <<mdstore, delb, gw, sweep, vs>>
    /\ UNCHANGED <<implName, store, nextKey, records, bb, ncalls>>

---------------------------------------------------------------------------
\* The replication route (routeBackbeat.js).

Methods == {"PUT", "POST", "DELETE", "GET"}
ResourceTypes == {"data", "metadata", "multiplebackenddata", "other"}
Operations ==
    {"putobject", "putpart", "initiatempu", "completempu", "deleteobject"}

\* The headers a multiplebackenddata handler reads, each absent or present.
MultiHeaders ==
    {[NoHeaders EXCEPT !.storageType = t, !.storageClass = c,
                       !.versionId = v, !.canonicalId = o,
                       !.contentMD5 = m, !.partNumber = n, !.uploadId = u] :
        t \in {None, "aws_s3", "gcp"},
        c \in {None, "aws-test", "gcp-test", Unregistered},
        v \in {None, "v1"}, o \in {None, "owner"},
        m \in {None} \cup Digests, n \in {None, "1"}, u \in {None, "u1"}}

\* The headers putData reads.
DataHeaders ==
    {[NoHeaders EXCEPT !.canonicalId = o, !.contentMD5 = m] :
        o \in {None, "owner"}, m \in {None} \cup Digests}

\* The headers putMetadata reads.
MetadataHeaders ==
    {[NoHeaders EXCEPT !.replicationContent = r] : r \in {None, "METADATA"}}

\* The request payload of the metadata route: not JSON, or the metadata of
\* the source object.
Payloads ==
    {[NoObjMD EXCEPT !.location = "malformed"],
     [NoObjMD EXCEPT !.versionId = "v1", !.location = "src-location",
                     !.contentMd5 = MD5("a")],
     [NoObjMD EXCEPT !.location = "src-location", !.contentMd5 = MD5("a")]}

\* A metadata-only write that stores the payload as it came.
MetadataValueAsSent(payload, replicationContent, objMdLocation) == payload

\* routeBackbeat.js:204-213: the value putMetadata hands to putObjectMD; a
\* metadata-only write keeps the location of the existing object.
MetadataValue(payload, replicationContent, objMdLocation) ==
    IF replicationContent = "METADATA"
    THEN [payload EXCEPT !.location = objMdLocation]
    ELSE payload

\* Options that leave the version id to the metadata layer.
PutOptionsNoVersionId(omVal) == [versioning |-> TRUE, versionId |-> None]

\* routeBackbeat.js:217-220: the options of the putObjectMD call.
PutOptions(omVal) == [versioning |-> TRUE, versionId |-> omVal.versionId]

\* metadata.putObjectMD (lib/metadata/wrapper.js, not part of the sources):
\* the version the metadata layer stores.  With versioning and a version id
\* it is a new version under that id; with versioning alone the id is
\* generated; without versioning the master is overwritten.
putObjectMD(omVal, options) ==
    [omVal EXCEPT !.versioning = options.versioning,
                  !.versionId = IF ~options.versioning THEN None
                                ELSE IF options.versionId # None
                                THEN options.versionId
                                ELSE "generated"]

\* backbeatRoutes (routeBackbeat.js:390-410): the handler, if any.
backbeatRoutes(method, resourceType, operation) ==
    CASE method = "PUT" /\ resourceType = "data" -> "putData"
      [] method = "PUT" /\ resourceType = "metadata" -> "putMetadata"
      [] method = "PUT" /\ resourceType = "multiplebackenddata"
            /\ operation = "putobject" -> "putObject"
      [] method = "PUT" /\ resourceType = "multiplebackenddata"
            /\ operation = "putpart" -> "putPart"
      [] method = "POST" /\ resourceType = "multiplebackenddata"
            /\ operation = "initiatempu" -> "initiateMultipartUpload"
      [] method = "POST" /\ resourceType = "multiplebackenddata"
            /\ operation = "completempu" -> "completeMultipartUpload"
      [] method = "DELETE" /\ resourceType = "multiplebackenddata"
            /\ operation = "deleteobject" -> "deleteObject"
      [] OTHER -> None

\* routeBackbeat.js:416-419
InvalidRequest(bucketName, objectKey, resourceType, operation) ==
    \/ bucketName = None
    \/ objectKey = None
    \/ resourceType = None
    \/ operation = None /\ resourceType = "multiplebackenddata"

\* The header check without the content-md5 test of putobject.
MissingHeaderNoMD5(h, operation) ==
    \/ operation \in {"initiatempu", "putobject"} /\ h.versionId = None
    \/ operation = "putpart" /\ h.partNumber = None
    \/ operation \in {"putpart", "completempu"} /\ h.uploadId = None
    \/ operation = "putobject" /\ h.canonicalId = None
    \/ h.storageType = None
    \/ h.storageClass = None

\* routeBackbeat.js:67-106: a header the operation needs is missing.
MissingHeader(h, operation) ==
    \/ operation \in {"initiatempu", "putobject"} /\ h.versionId = None
    \/ operation = "putpart" /\ h.partNumber = None
    \/ operation \in {"putpart", "completempu"} /\ h.uploadId = None
    \/ operation = "putobject" /\ h.canonicalId = None
    \/ operation = "putobject" /\ h.contentMD5 = None
    \/ h.storageType = None
    \/ h.storageClass = None

\* The location check without the comparison of the bucket names.
IsValidLocationAnyBucket(h, bucketName) ==
    /\ h.storageClass \in DOMAIN locationConstraints
    /\ locationConstraints[h.storageClass].type = h.storageType

\* routeBackbeat.js:107-110
IsValidLocation(h, bucketName) ==
    /\ h.storageClass \in DOMAIN locationConstraints
    /\ locationConstraints[h.storageClass].type = h.storageType
    /\ locationConstraints[h.storageClass].bucketName = bucketName

\* _checkMultipleBackendRequest (routeBackbeat.js:63-122): the error, or
\* None.
_checkMultipleBackendRequest(h, bucketName, operation) ==
    IF MissingHeader(h, operation) THEN "BadRequest"
    ELSE IF ~IsValidLocation(h, bucketName) THEN "InvalidRequest"
    ELSE None

\* A waterfall that goes on after an authentication error.
AuthErrorIgnored(ok) == FALSE

\* routeBackbeat.js:431-439 with async.waterfall: an authentication error
\* ends the pipeline.
AuthError(ok) == ~ok

\* A versioning check that lets a suspended configuration pass.
VersioningNotEnabledOnlyAbsent(versioningConfig) == versioningConfig = None

\* routeBackbeat.js:473-474: the bucket has no versioning configuration, or
\* its Status is not 'Enabled'.
VersioningNotEnabled(versioningConfig) ==
    versioningConfig = None \/ versioningConfig # "Enabled"

\* Whether the client of a location has uploadPart: GcpClient has none; the
\* AWS client has multipart upload.
HasUploadPart(loc) == clientType(loc) = "aws_s3"

Event(b, e) == [b EXCEPT !.trace = Append(@, e)]

\* An exception nobody catches (a property of undefined is read, or a value
\* that is no function is called): the request gets no answer.
Throw(b) == [b EXCEPT !.pc = "done", !.status = "TypeError"]

\* Replica metadata that does not mark the object as a replica.
ReplicaMetaHeadersUnmarked(storageLocation, sourceVersionId) ==
    [locationConstraint |-> storageLocation, replicationStatus |-> None,
     versionId |-> sourceVersionId]

\* routeBackbeat.js:246-250: the metaHeaders of putObject's key context
\* (x-amz-meta-scal-location-constraint, -replication-status, -version-id).
ReplicaMetaHeaders(storageLocation, sourceVersionId) ==
    [locationConstraint |-> storageLocation, replicationStatus |-> "REPLICA",
     versionId |-> sourceVersionId]

\* BackendInfo.getControllingLocationConstraint (lib/api/apiUtils/object/
\* locationConstraintCheck.js, not part of the sources) of the
\* new BackendInfo(storageLocation) of routeBackbeat.js:259: the object's
\* location constraint controls.
getControllingLocationConstraint(objectLocationConstraint) ==
    objectLocationConstraint

\* A request arrives: routeBackbeat up to the call of doAuth
\* (routeBackbeat.js:412-429).
BBRequest ==
    /\ Quiet
    /\ ncalls < MaxRequests
    /\ \E method \in Methods, resourceType \in ResourceTypes,
          bucketName \in Buckets, objectKey \in ObjectKeys \cup {None},
          operation \in Operations \cup {None} :
          LET b == [BbIdle EXCEPT !.method = method,
                                  !.resourceType = resourceType,
                                  !.bucketName = bucketName,
                                  !.objectKey = objectKey,
                                  !.operation = operation,
                                  !.prev = bb.prev]
          IN  bb' = IF InvalidRequest(bucketName, objectKey, resourceType,
                                      operation)
                    THEN Respond(b, "MethodNotAllowed", NoReply)
                    ELSE Event([b EXCEPT !.pc = "auth"], "doAuth")
    /\ ncalls' = ncalls + 1
    /\ UNCHANGED <<mdstore, delb, gw, sweep, vs>>
    /\ UNCHANGED <<implName, store, nextKey, records, ds, bd>>

\* The multiplebackenddata handlers (routeBackbeat.js:237-388), from the
\* header check to the call of the data layer.
MultipleBackendHandler(b0, handler, h, body) ==
    LET b == Event([b0 EXCEPT !.handler = handler, !.h = h], handler)
        err == _checkMultipleBackendRequest(h, b.bucketName, b.operation)
        loc == h.storageClass
    IN  IF err # None
        THEN /\ bb' = Respond(b, err, NoReply)
             /\ UNCHANGED ds
        ELSE CASE handler = "putObject" ->
                    LET d == StartPut("putObject",
                                      getControllingLocationConstraint(loc),
                                      b.bucketName, b.objectKey, None, body,
                                      None)
                    IN  /\ ds' = [d EXCEPT !.metaHeaders =
                                     ReplicaMetaHeaders(loc, h.versionId)]
                        /\ bb' = Event([b EXCEPT !.pc = "store"],
                                       "client.put")
               [] handler = "deleteObject" ->
                    /\ bb' = Event([b EXCEPT !.pc = "gw", !.gwop = "delete"],
                                   "client.delete")
                    /\ UNCHANGED ds
               [] handler = "initiateMultipartUpload" ->
                    \* part_003:155-163, then routeBackbeat.js:323-325
                    /\ bb' = IF clientType(loc) = "aws_s3"
                             THEN Event([b EXCEPT !.pc = "gw",
                                                  !.gwop = "createMPU"],
                                        "client.createMPU")
                             ELSE Throw(b)
                    /\ UNCHANGED ds
               [] handler = "putPart" ->
                    \* part_003:165-174, then routeBackbeat.js:349-352
                    /\ bb' = IF HasUploadPart(loc)
                             THEN Event([b EXCEPT !.pc = "gw",
                                                  !.gwop = "uploadPart"],
                                        "client.uploadPart")
                             ELSE Throw(b)
                    /\ UNCHANGED ds
               [] handler = "completeMultipartUpload" ->
                    /\ bb' = [b EXCEPT !.pc = "body"]
                    /\ UNCHANGED ds

\* doAuth answers (routeBackbeat.js:429-440); then, for a
\* multiplebackenddata request, the rest of the waterfall runs: no bucket
\* lookup (routeBackbeat.js:442-445), the route lookup and the handler
\* (routeBackbeat.js:452-471).  The handler reads the headers and, for
\* putobject, streams the body.
BBAuthCallback(ok) ==
    /\ bb.pc = "auth"
    /\ LET b0 == [bb EXCEPT !.auth = IF ok THEN "ok" ELSE "denied"]
           handler == backbeatRoutes(bb.method, bb.resourceType,
                                     bb.operation)
       IN  IF AuthError(ok)
           THEN /\ bb' = Respond(b0, "AccessDenied", NoReply)
                /\ UNCHANGED ds
           ELSE IF bb.resourceType # "multiplebackenddata"
           THEN /\ bb' = Event([b0 EXCEPT !.pc = "md"],
                               "metadataValidateBucketAndObj")
                /\ UNCHANGED ds
           ELSE IF handler = None
           THEN /\ bb' = Respond(Event(b0, "route"), "MethodNotAllowed",
                                 NoReply)
                /\ UNCHANGED ds
           ELSE \E h \in MultiHeaders,
                   body \in IF handler = "putObject" THEN Bodies ELSE {None} :
                   MultipleBackendHandler(Event(b0, "route"), handler, h,
                                          body)
    /\ UNCHANGED <<mdstore, delb, gw, sweep, vs>>
    /\ UNCHANGED <<implName, store, nextKey, records, bd, ncalls>>

\* metadataValidateBucketAndObj answers with an error or with the bucket
\* and the object's metadata; then the route lookup, the versioning check
\* and the handler (routeBackbeat.js:452-483).  putData
\* (routeBackbeat.js:137-169) reads its headers, asks
\* locationConstraintCheck for the location (lc, or "err") and calls
\* dataStore; putMetadata starts to read the payload.
BBMetadataCallback(err, versioning, objMdLocation) ==
    /\ bb.pc = "md"
    /\ LET handler == backbeatRoutes(bb.method, bb.resourceType,
                                     bb.operation)
           b0 == Event([bb EXCEPT !.versioning = versioning,
                                  !.objMdLocation = objMdLocation], "route")
           b == Event([b0 EXCEPT !.handler = handler], handler)
       IN  IF err # None
           THEN /\ bb' = Respond(bb, err, NoReply)
                /\ UNCHANGED ds
           ELSE IF handler = None
           THEN /\ bb' = Respond(b0, "MethodNotAllowed", NoReply)
                /\ UNCHANGED ds
           ELSE IF VersioningNotEnabled(versioning)
           THEN /\ bb' = Respond(b0, "InvalidBucketState", NoReply)
                /\ UNCHANGED ds
           ELSE IF handler = "putMetadata"
           THEN /\ bb' = [b EXCEPT !.pc = "payload"]
                /\ UNCHANGED ds
           ELSE \E h \in DataHeaders :
                  LET bh == [b EXCEPT !.h = h]
                  IN  IF h.canonicalId = None \/ h.contentMD5 = None
                      THEN /\ bb' = Respond(bh, "BadRequest", NoReply)
                           /\ UNCHANGED ds
                      ELSE \E lc \in LocNames \cup {"err"}, body \in Bodies :
                             IF lc = "err"
                             THEN /\ bb' = Respond(bh, "InternalError",
                                                   NoReply)
                                  /\ UNCHANGED ds
                             ELSE /\ ds' = StartPut("putData", lc,
                                                    bb.bucketName,
                                                    bb.objectKey, None, body,
                                                    None)
                                  /\ bb' = Event([bh EXCEPT !.pc = "store"],
                                                 "client.put")
    /\ UNCHANGED <<mdstore, delb, gw, sweep, vs>>
    /\ UNCHANGED <<implName, store, nextKey, records, bd, ncalls>>

\* The payload of a metadata request has been read: putMetadata
\* (routeBackbeat.js:191-223) up to the call of metadata.putObjectMD.
BBPayloadEnd(payload, h) ==
    /\ bb.pc = "payload"
    /\ LET b == [bb EXCEPT !.h = h, !.payload = payload]
       IN  IF payload.location = "malformed"
           THEN bb' = Respond(b, "MalformedPOSTRequest", NoReply)
           ELSE IF h.replicationContent = "METADATA"
                   /\ bb.objMdLocation = None
           THEN bb' = Respond(b, "ObjNotFound", NoReply)
           ELSE bb' = Event([b EXCEPT
                               !.pc = "mdput",
                               !.omVal = MetadataValue(payload,
                                                       h.replicationContent,
                                                       bb.objMdLocation)],
                            "putObjectMD")
    /\ UNCHANGED <<mdstore, delb, gw, sweep, vs>>
    /\ UNCHANGED <<implName, store, nextKey, records, ds, bd, ncalls>>

\* metadata.putObjectMD answers (routeBackbeat.js:224-233).
BBPutObjectMDCallback(ok) ==
    /\ bb.pc = "mdput"
    /\ bb' = IF ok
             THEN Respond([bb EXCEPT !.mdPut =
                              putObjectMD(bb.omVal, PutOptions(bb.omVal))],
                          "200", [NoReply EXCEPT !.shape = "md"])
             ELSE Respond(bb, "InternalError", NoReply)
    /\ UNCHANGED <<mdstore, delb, gw, sweep, vs>>
    /\ UNCHANGED <<implName, store, nextKey, records, ds, bd, ncalls>>

\* The body of a completempu request has been read
\* (routeBackbeat.js:366-386).  The gateway's completeMPU takes seven
\* arguments (part_003:187) and is called with eight: its cb is the route's
\* log object.  An aws_s3 client is called; any other type calls cb at once.
BBBodyEnd(valid) ==
    /\ bb.pc = "body"
    /\ bb' = IF ~valid THEN Respond(bb, "MalformedPOSTRequest", NoReply)
             ELSE IF clientType(bb.h.storageClass) = "aws_s3"
             THEN Event([bb EXCEPT !.pc = "gw", !.gwop = "completeMPU"],
                        "client.completeMPU")
             ELSE Throw(bb)
    /\ UNCHANGED <<mdstore, delb, gw, sweep, vs>>
    /\ UNCHANGED <<implName, store, nextKey, records, ds, bd, ncalls>>

\* The client answers a call the gateway made for a handler: delete
\* (part_003:83-98, GcpClient.delete, routeBackbeat.js:290-299), createMPU
\* (routeBackbeat.js:315-327), uploadPart (routeBackbeat.js:341-354),
\* completeMPU (part_003:191-197).
BBGatewayCallback(ok) ==
    /\ bb.pc = "gw"
    /\ LET o == Obj(bb.h.storageClass, <<bb.objectKey>>)
       IN  IF bb.gwop = "delete" /\ ok
           THEN /\ store' = store \ {o}
                /\ records' = {r \in records : ObjOf(r) # o}
           ELSE UNCHANGED <<store, records>>
    /\ bb' = CASE bb.gwop = "completeMPU" -> Throw(bb)
               [] ~ok -> Respond(bb, "InternalError", NoReply)
               [] bb.gwop = "delete" ->
                    Respond(bb, "200", [NoReply EXCEPT !.shape = "empty"])
               [] bb.gwop = "createMPU" ->
                    Respond(bb, "200", [NoReply EXCEPT !.shape = "uploadId",
                                                       !.uploadId = "upload1"])
               [] bb.gwop = "uploadPart" ->
                    Respond(bb, "200",
                            [NoReply EXCEPT !.shape = "part",
                                            !.partNumber = bb.h.partNumber,
                                            !.ETag = "etag1"])
    /\ UNCHANGED <<mdstore, delb, gw, sweep, vs>>
    /\ UNCHANGED <<implName, nextKey, ds, bd, ncalls>>

\* The request is over.
BBFinish ==
    /\ NothingInFlight
    /\ bb.pc = "done"
    /\ bb' = [BbIdle EXCEPT
                 !.prev = IF bb.handler = "putObject" /\ bb.status = "200"
                          THEN [handler |-> bb.handler,
                                bucketName |-> bb.bucketName,
                                objectKey |-> bb.objectKey,
                                storageClass |-> bb.h.storageClass,
                                status |-> bb.status]
                          ELSE NoPrev]
    /\ ds' = DsIdle
    /\ bd' = BdIdle
    /\ UNCHANGED <<mdstore, delb, gw, sweep, vs>>
    /\ UNCHANGED <<implName, store, nextKey, records, ncalls>>

---------------------------------------------------------------------------
\* Bucket deletion (lib/api/apiUtils/bucket/bucketDeletion.js), for one
\* bucket and its owner.  Every call of the metadata layer or of the KMS
\* is a suspension point: the step that follows is the callback of the
\* call, which the layer has performed or has failed.

\* What the metadata layer and the KMS hold:
\*   bucket, deleted, transient, sse  the bucket metadata and its flags
\*   versions, deleteMarkers          what the bucket lists
\*   mpuBucket, overview              the shadow MPU bucket, its overview keys
\*   usersBucket, entry               the users bucket that exists (new or
\*                                    old format, or none yet) and the
\*                                    bucket's entry in it
\*   masterKey                        the KMS master key of the bucket
BucketStates ==
    {m \in [bucket : {TRUE}, deleted : {FALSE}, transient : BOOLEAN,
            sse : {None, "AES256", "aws:kms"}, versions : 0..1,
            deleteMarkers : 0..1, mpuBucket : BOOLEAN, overview : 0..1,
            usersBucket : {"new", "old", "none"}, entry : BOOLEAN,
            masterKey : BOOLEAN] :
        /\ m.masterKey = (m.sse # None)
        /\ m.overview > 0 => m.mpuBucket
        /\ ~m.transient => m.entry
        /\ m.usersBucket = "none" => ~m.entry}

\* An empty bucket without uploads and without encryption.
PlainBucket ==
    [bucket |-> TRUE, deleted |-> FALSE, transient |-> FALSE, sse |-> None,
     versions |-> 0, deleteMarkers |-> 0, mpuBucket |-> FALSE,
     overview |-> 0, usersBucket |-> "new", entry |-> TRUE,
     masterKey |-> FALSE]

\* The stages of deleteBucket: the four tasks of the waterfall and its
\* final callback (bucketDeletion.js:112-197).
Stages ==
    <<"checkForObjectsStep", "deleteMPUbucketStep", "addDeleteFlagStep",
      "deleteUserBucketEntryStep", "actualDeletionStep">>

StageIndex(stage) == CHOOSE i \in DOMAIN Stages : Stages[i] = stage

\* The bucketMD object of the caller: its flags and its encryption.
BucketMD(m) ==
    [deleted |-> m.deleted, transient |-> m.transient, sse |-> m.sse]

\* The call in progress.
\*   fn        "deleteBucket" or "invisiblyDelete"
\*   pc        the outstanding call of the metadata layer or the KMS, or
\*             "done", or "stopped" (the process stopped during the call)
\*   stages    the stages started, in order
\*   outcomes  the error (or None) each finished stage handed on
\*   result    what the caller's callback got; for invisiblyDelete, what
\*             was logged
\*   bucketMD  the caller's bucketMD object
\*   before    mdstore when the call started
\*   failure   the metadata layer or the KMS failed during the call
\*   stopped   the number of stages an earlier deleteBucket had finished
\*             when the process stopped, or -1
\*   last      the result of the call before this one
\*   answers   what the users buckets answered in the detach stage:
\*             <<index, error or None>>, in order
DelIdle ==
    [fn |-> None, pc |-> "idle", stages |-> <<>>, outcomes |-> <<>>,
     result |-> None, bucketMD |-> BucketMD(PlainBucket),
     before |-> PlainBucket, failure |-> FALSE, stopped |-> -1,
     last |-> None, answers |-> <<>>]

\* metadata.listObject of the bucket with DelimiterVersions
\* (bucketDeletion.js:114-119): the versions and delete markers.
listObject(m) == [Versions |-> m.versions, DeleteMarkers |-> m.deleteMarkers]

\* A count that misses the delete markers.
LengthOfVersions(list) == list.Versions

\* bucketDeletion.js:125-126
Length(list) == list.Versions + list.DeleteMarkers

\* An upload check that never finds an upload.
MPUinProgressNever(objectsListRes) == FALSE

\* bucketDeletion.js:154: the shadow MPU bucket lists an overview key.
MPUinProgress(objectsListRes) == objectsListRes.Contents > 0

\* The store once the outstanding call has been performed.
Performed(m, d) ==
    CASE d.pc = "deleteMPUbucket" -> [m EXCEPT !.mpuBucket = FALSE]
      [] d.pc = "updateBucket" ->
            [m EXCEPT !.deleted = d.bucketMD.deleted,
                      !.transient = d.bucketMD.transient]
      [] d.pc = "deleteObjectMD" ->
            IF m.usersBucket = "new" THEN [m EXCEPT !.entry = FALSE] ELSE m
      [] d.pc = "deleteObjectMDOld" ->
            IF m.usersBucket = "old" THEN [m EXCEPT !.entry = FALSE] ELSE m
      [] d.pc = "deleteBucket" -> [m EXCEPT !.bucket = FALSE]
      [] d.pc = "destroyBucketKey" -> [m EXCEPT !.masterKey = FALSE]
      [] OTHER -> m

\* An end of the call that keeps the error from the caller.
FinishWithoutError(d, err, failure) ==
    [d EXCEPT !.pc = "done", !.result = "ok", !.failure = failure]

\* The call ends: cb(err) of deleteBucket, log.end() of invisiblyDelete.
Finish(d, err, failure) ==
    [d EXCEPT !.pc = "done", !.result = IF err = None THEN "ok" ELSE err,
              !.failure = failure]

\* A stage begins with the call pc.
StartStage(d, pc) ==
    [d EXCEPT !.pc = pc,
              !.stages = Append(@, Stages[StageIndex(d.stages[Len(d.stages)])
                                          + 1])]

\* A pipeline that starts the next stage whatever the stage handed on.
WaterfallNextAnyway(d, err, failure, pc) ==
    StartStage([d EXCEPT !.outcomes = Append(@, err)], pc)

\* async.waterfall (bucketDeletion.js:112, 178-183) and the callback of
\* invisiblyDelete (bucketDeletion.js:77-84): the stage in progress hands
\* err on; an error ends the call, otherwise the next stage begins.
WaterfallNext(d, err, failure, pc) ==
    LET d1 == [d EXCEPT !.outcomes = Append(@, err)]
    IN  IF err # None THEN Finish(d1, err, failure) ELSE StartStage(d1, pc)

\* A mark stage that persists the bucket metadata without the flag.
AddDeleteFlagUnflagged(d) ==
    [WaterfallNext(d, None, FALSE, "updateBucket") EXCEPT
        !.bucketMD.transient = FALSE]

\* A mark stage that sets the deleted flag and leaves the transient flag.
AddDeleteFlagOnly(d) ==
    [WaterfallNext(d, None, FALSE, "updateBucket") EXCEPT
        !.bucketMD.deleted = TRUE]

\* addDeleteFlagStep (bucketDeletion.js:166-173) begins: the flags are set
\* on the caller's bucketMD and metadata.updateBucket is called.
AddDeleteFlag(d) ==
    [WaterfallNext(d, None, FALSE, "updateBucket") EXCEPT
        !.bucketMD.transient = FALSE, !.bucketMD.deleted = TRUE]

\* The API calls deleteBucket (bucketDeletion.js:107-119) for a bucket
\* that exists and has no deleted flag.
DeleteBucket ==
    /\ delb.pc \in {"idle", "stopped"}
    /\ ncalls < MaxDeletes
    /\ mdstore.bucket /\ ~mdstore.deleted
    /\ delb' = [DelIdle EXCEPT !.fn = "deleteBucket", !.pc = "listObject",
                               !.stages = <<Stages[1]>>,
                               !.bucketMD = BucketMD(mdstore),
                               !.before = mdstore,
                               !.stopped = delb.stopped,
                               !.last = delb.last]
    /\ ncalls' = ncalls + 1
    /\ UNCHANGED <<gw, sweep, vs>>
    /\ UNCHANGED <<implName, store, nextKey, records, ds, bd, bb, mdstore>>

\* The listing of the bucket answers (bucketDeletion.js:120-134).
ListObjectCallback(err) ==
    /\ delb.pc = "listObject"
    /\ delb' = IF err # None THEN WaterfallNext(delb, err, TRUE, None)
               ELSE IF Length(listObject(mdstore)) > 0
               THEN WaterfallNext(delb, "BucketNotEmpty", FALSE, None)
               ELSE WaterfallNext(delb, None, FALSE, "listMPU")
    /\ UNCHANGED <<gw, sweep, vs>>
    /\ UNCHANGED <<implName, store, nextKey, records, ds, bd, bb, ncalls,
                   mdstore>>

\* The listing of the shadow MPU bucket answers (bucketDeletion.js:144-164).
ListMPUCallback(err) ==
    /\ delb.pc = "listMPU"
    /\ delb' = IF err = None /\ ~mdstore.mpuBucket  \* NoSuchBucket
               THEN AddDeleteFlag(delb)
               ELSE IF err # None THEN WaterfallNext(delb, err, TRUE, None)
               ELSE IF MPUinProgress([Contents |-> mdstore.overview])
               THEN WaterfallNext(delb, "MPUinProgress", FALSE, None)
               ELSE [delb EXCEPT !.pc = "deleteMPUbucket"]
    /\ UNCHANGED <<gw, sweep, vs>>
    /\ UNCHANGED <<implName, store, nextKey, records, ds, bd, bb, ncalls,
                   mdstore>>

\* metadata.deleteBucket of the shadow MPU bucket answers
\* (_deleteMPUbucket, bucketDeletion.js:54-64).
DeleteMPUbucketCallback(err) ==
    /\ delb.pc = "deleteMPUbucket"
    /\ IF err # None
       THEN /\ delb' = WaterfallNext(delb, err, TRUE, None)
            /\ UNCHANGED mdstore
       ELSE /\ mdstore' = Performed(mdstore, delb)
            /\ delb' = AddDeleteFlag(delb)
    /\ UNCHANGED <<gw, sweep, vs>>
    /\ UNCHANGED <<implName, store, nextKey, records, ds, bd, bb, ncalls>>

\* metadata.updateBucket answers; deleteUserBucketEntryStep
\* (bucketDeletion.js:174-177) calls metadata.deleteObjectMD.
UpdateBucketCallback(err) ==
    /\ delb.pc = "updateBucket"
    /\ mdstore' = IF err = None THEN Performed(mdstore, delb) ELSE mdstore
    /\ delb' = WaterfallNext(delb, err, err # None, "deleteObjectMD")
    /\ UNCHANGED <<gw, sweep, vs>>
    /\ UNCHANGED <<implName, store, nextKey, records, ds, bd, bb, ncalls>>

\* What metadata.deleteObjectMD answers for the bucket's key in the users
\* bucket of the given format: the layer's own failure, NoSuchBucket when
\* that users bucket does not exist, NoSuchKey when it holds no such key.
DeleteObjectMDAnswer(m, format, err) ==
    IF err # None THEN err
    ELSE IF m.usersBucket # format THEN "NoSuchBucket"
    ELSE IF ~m.entry THEN "NoSuchKey"
    ELSE None

\* A detach step that takes a missing key for a failure.
EntryGoneStrict(error) == error = None

\* bucketDeletion.js:24-25 and 33, 47-49: the entry is gone, removed now or
\* not there before.
EntryGone(error) == error = None \/ error = "NoSuchKey"

\* The delete of the entry in the users bucket answers
\* (_deleteUserBucketEntry, bucketDeletion.js:21-50): NoSuchKey is no
\* error, NoSuchBucket sends the delete to the old users bucket.  After it,
\* deleteBucket and invisiblyDelete both call metadata.deleteBucket
\* (bucketDeletion.js:184 and 84).
DeleteObjectMDCallback(err) ==
    /\ delb.pc = "deleteObjectMD"
    /\ LET error == DeleteObjectMDAnswer(mdstore, "new", err)
           d == [delb EXCEPT !.answers = Append(@, <<"usersBucket", error>>)]
       IN  IF EntryGone(error)
           THEN /\ mdstore' = Performed(mdstore, delb)
                /\ delb' = WaterfallNext(d, None, FALSE, "deleteBucket")
           ELSE IF error = "NoSuchBucket"
           THEN /\ delb' = [d EXCEPT !.pc = "deleteObjectMDOld"]
                /\ UNCHANGED mdstore
           ELSE /\ delb' = WaterfallNext(d, error, TRUE, None)
                /\ UNCHANGED mdstore
    /\ UNCHANGED <<gw, sweep, vs>>
    /\ UNCHANGED <<implName, store, nextKey, records, ds, bd, bb, ncalls>>

\* The delete in the old users bucket answers (bucketDeletion.js:32-41).
DeleteObjectMDOldCallback(err) ==
    /\ delb.pc = "deleteObjectMDOld"
    /\ LET error == DeleteObjectMDAnswer(mdstore, "old", err)
           d == [delb EXCEPT !.answers =
                                Append(@, <<"oldUsersBucket", error>>)]
       IN  IF EntryGone(error)
           THEN /\ mdstore' = Performed(mdstore, delb)
                /\ delb' = WaterfallNext(d, None, FALSE, "deleteBucket")
           ELSE /\ delb' = WaterfallNext(d, error, TRUE, None)
                /\ UNCHANGED mdstore
    /\ UNCHANGED <<gw, sweep, vs>>
    /\ UNCHANGED <<implName, store, nextKey, records, ds, bd, bb, ncalls>>

\* A last stage that destroys the key of any encrypted bucket.
DestroysKeyAnyAlgorithm(serverSideEncryption) == serverSideEncryption # None

\* bucketDeletion.js:190-191
DestroysKey(serverSideEncryption) ==
    serverSideEncryption # None /\ serverSideEncryption = "AES256"

\* What metadata.deleteBucket answers: the layer's own failure, or
\* NoSuchBucket for a bucket that does not exist (the answer
\* _deleteMPUbucket reads, bucketDeletion.js:55-59).
DeleteBucketAnswer(m, err) ==
    IF err # None THEN err
    ELSE IF ~m.bucket THEN "NoSuchBucket"
    ELSE None

\* metadata.deleteBucket of the bucket has answered error: the callback of
\* bucketDeletion.js:184-196 for deleteBucket, which goes on to the KMS
\* for an AES256 bucket, and of bucketDeletion.js:84-94 for
\* invisiblyDelete, which ends.
BucketDeleted(d, error, failure) ==
    IF error # None
    THEN Finish([d EXCEPT !.outcomes = Append(@, error)], error, failure)
    ELSE IF d.fn = "deleteBucket" /\ DestroysKey(d.bucketMD.sse)
    THEN [d EXCEPT !.pc = "destroyBucketKey"]
    ELSE Finish([d EXCEPT !.outcomes = Append(@, None)], None, FALSE)

\* metadata.deleteBucket of the bucket answers.
DeleteBucketCallback(err) ==
    /\ delb.pc = "deleteBucket"
    /\ LET error == DeleteBucketAnswer(mdstore, err)
       IN  /\ mdstore' = IF error = None THEN Performed(mdstore, delb)
                         ELSE mdstore
           /\ delb' = BucketDeleted(delb, error, err # None)
    /\ UNCHANGED <<gw, sweep, vs>>
    /\ UNCHANGED <<implName, store, nextKey, records, ds, bd, bb, ncalls>>

\* kms.destroyBucketKey answers (bucketDeletion.js:193).
DestroyBucketKeyCallback(err) ==
    /\ delb.pc = "destroyBucketKey"
    /\ mdstore' = IF err = None THEN Performed(mdstore, delb) ELSE mdstore
    /\ delb' = Finish([delb EXCEPT !.outcomes = Append(@, err)], err,
                      err # None)
    /\ UNCHANGED <<gw, sweep, vs>>
    /\ UNCHANGED <<implName, store, nextKey, records, ds, bd, bb, ncalls>>

\* invisiblyDelete (bucketDeletion.js:74-77) is called for a bucket whose
\* metadata carries the deleted flag.
InvisiblyDelete ==
    /\ delb.pc \in {"idle", "stopped"}
    /\ ncalls < MaxDeletes
    /\ mdstore.bucket /\ mdstore.deleted
    /\ delb' = [DelIdle EXCEPT !.fn = "invisiblyDelete",
                               !.pc = "deleteObjectMD",
                               !.stages = <<Stages[4]>>,
                               !.bucketMD = BucketMD(mdstore),
                               !.before = mdstore,
                               !.stopped = delb.stopped,
                               !.last = delb.last]
    /\ ncalls' = ncalls + 1
    /\ UNCHANGED <<gw, sweep, vs>>
    /\ UNCHANGED <<implName, store, nextKey, records, ds, bd, bb, mdstore>>

\* The process stops while a call of deleteBucket is outstanding; the
\* call has been performed, or not.
Stop(performed) ==
    /\ delb.fn = "deleteBucket"
    /\ delb.pc \notin {"idle", "done", "stopped"}
    /\ mdstore' = IF performed THEN Performed(mdstore, delb) ELSE mdstore
    /\ delb' = [delb EXCEPT !.pc = "stopped",
                            !.stopped = Len(delb.outcomes)]
    /\ UNCHANGED <<gw, sweep, vs>>
    /\ UNCHANGED <<implName, store, nextKey, records, ds, bd, bb, ncalls>>

\* The call is over.
DeleteReturn ==
    /\ delb.pc = "done"
    /\ delb' = [DelIdle EXCEPT !.stopped = delb.stopped,
                               !.last = delb.result]
    /\ UNCHANGED <<gw, sweep, vs>>
    /\ UNCHANGED <<implName, store, nextKey, records, ds, bd, bb, ncalls,
                   mdstore>>

\* A request that finds the bucket with its deleted flag calls
\* invisiblyDelete (bucketDeletion.js:74-77) while deleteBucket, past its
\* mark stage, is at work on the same bucket.
InvisiblyDeleteBeside ==
    /\ sweep.pc = "idle"
    /\ delb.fn = "deleteBucket"
    /\ delb.pc \in {"deleteObjectMD", "deleteObjectMDOld", "deleteBucket"}
    /\ mdstore.bucket /\ mdstore.deleted
    /\ sweep' = [DelIdle EXCEPT !.fn = "invisiblyDelete",
                                !.pc = "deleteObjectMD",
                                !.stages = <<Stages[4]>>,
                                !.bucketMD = BucketMD(mdstore),
                                !.before = mdstore]
    /\ UNCHANGED <<implName, store, nextKey, records, ds, bd, bb, ncalls,
                   mdstore, delb, gw, vs>>

\* The delete of the entry in the users bucket answers that
\* invisiblyDelete (_deleteUserBucketEntry, bucketDeletion.js:21-50).
BesideDeleteObjectMDCallback(err) ==
    /\ sweep.pc = "deleteObjectMD"
    /\ LET error == DeleteObjectMDAnswer(mdstore, "new", err)
           d == [sweep EXCEPT !.answers = Append(@, <<"usersBucket", error>>)]
       IN  IF EntryGone(error)
           THEN /\ mdstore' = Performed(mdstore, sweep)
                /\ sweep' = WaterfallNext(d, None, FALSE, "deleteBucket")
           ELSE IF error = "NoSuchBucket"
           THEN /\ sweep' = [d EXCEPT !.pc = "deleteObjectMDOld"]
                /\ UNCHANGED mdstore
           ELSE /\ sweep' = WaterfallNext(d, error, TRUE, None)
                /\ UNCHANGED mdstore
    /\ UNCHANGED <<implName, store, nextKey, records, ds, bd, bb, ncalls,
                   delb, gw, vs>>

\* The delete in the old users bucket answers it
\* (bucketDeletion.js:32-41).
BesideDeleteObjectMDOldCallback(err) ==
    /\ sweep.pc = "deleteObjectMDOld"
    /\ LET error == DeleteObjectMDAnswer(mdstore, "old", err)
           d == [sweep EXCEPT !.answers =
                                 Append(@, <<"oldUsersBucket", error>>)]
       IN  IF EntryGone(error)
           THEN /\ mdstore' = Performed(mdstore, sweep)
                /\ sweep' = WaterfallNext(d, None, FALSE, "deleteBucket")
           ELSE /\ sweep' = WaterfallNext(d, error, TRUE, None)
                /\ UNCHANGED mdstore
    /\ UNCHANGED <<implName, store, nextKey, records, ds, bd, bb, ncalls,
                   delb, gw, vs>>

\* metadata.deleteBucket answers it (bucketDeletion.js:84-94).
BesideDeleteBucketCallback(err) ==
    /\ sweep.pc = "deleteBucket"
    /\ LET error == DeleteBucketAnswer(mdstore, err)
       IN  /\ mdstore' = IF error = None THEN Performed(mdstore, sweep)
                         ELSE mdstore
           /\ sweep' = BucketDeleted(sweep, error, err # None)
    /\ UNCHANGED <<implName, store, nextKey, records, ds, bd, bb, ncalls,
                   delb, gw, vs>>

\* Both calls are over.
BesideReturn ==
    /\ delb.pc = "done"
    /\ sweep.pc = "done"
    /\ delb' = [DelIdle EXCEPT !.last = delb.result]
    /\ sweep' = DelIdle
    /\ UNCHANGED <<implName, store, nextKey, records, ds, bd, bb, ncalls,
                   mdstore, gw, vs>>

\* The objects of the bucket are deleted and its uploads aborted by other
\* requests, between two calls.
EmptyBucket ==
    /\ delb.pc \in {"idle", "stopped"}
    /\ mdstore.bucket
    /\ mdstore.versions + mdstore.deleteMarkers + mdstore.overview > 0
    /\ mdstore' = [mdstore EXCEPT !.versions = 0, !.deleteMarkers = 0,
                                  !.overview = 0]
    /\ UNCHANGED <<gw, sweep, vs>>
    /\ UNCHANGED <<implName, store, nextKey, records, ds, bd, bb, ncalls,
                   delb>>

---------------------------------------------------------------------------
\* The gateway's operations as its callers see them (part_003:13-260), the
\* health check of the data layer (wrapper.js:252-279) and the probe of a
\* GCP client (GcpClient.js:185-200).
\*
\* gw: the gateway call, or health check, in progress
\*   op           the function called
\*   pc           "idle", "tick" (the callback is due on the next tick),
\*                "client" (a client method is running), "health" (probes
\*                are running), "done"
\*   location     the name looked up in clients
\*   info         get and delete: the retrieval info handed over, a bare
\*                string or a record with its dataStoreName
\*   has          the client has the method the gateway looks for
\*   calls        the client methods called: client, method, and for get
\*                and delete what was passed ("key" or "objectGetInfo")
\*   answer       what the client answered: "ok" or "err"
\*   cbs          the callbacks delivered: the error and the data
\*   thrown       the function threw (a TypeError) instead of returning
\*   phase        health check: "each" (async.each of part_003:103-124),
\*                "parallel" (part_003:125-147), "client" (a single
\*                backend's own healthcheck), "exist" (GcpClient.js:188)
\*   pending      the probes that have not answered
\*   probed       the locations probed so far
\*   failed       the probes that answered an error
\*   resp         the entries of the response, by location name
\*   request      a call of a GcpClient method: the bucketMatch of the
\*                client's configuration, the bucket and the object key
\*   gcpKey       the name of the GCP file the method addressed

\* What a callback hands over besides the error: nothing, the flag
\* skipDataDelete, a retrieval record, what the client gave, or the health
\* response (kept in resp).
NoData == [kind |-> None, dataStoreName |-> None, dataStoreType |-> None]

NoGetInfo == [form |-> None, dataStoreName |-> None]

\* The names an entry of a health response may stand under: the locations,
\* and implName for a single backend (wrapper.js:255, 262, 273).
HealthNames == ClientNames \cup {"mem", "file"}

NoResp == [n \in HealthNames |-> None]

NoGcpRequest == [bucketMatch |-> FALSE, bucketName |-> None,
                 objectKey |-> None]

GwIdle ==
    [op |-> None, pc |-> "idle", location |-> None, info |-> NoGetInfo,
     has |-> FALSE, calls |-> <<>>, answer |-> None, cbs |-> <<>>,
     thrown |-> FALSE, phase |-> None, pending |-> {}, probed |-> {},
     failed |-> {}, resp |-> NoResp, request |-> NoGcpRequest,
     gcpKey |-> <<>>]

\* Reading a property of clients[location] when there is no such client.
TypeError(g) == [g EXCEPT !.pc = "done", !.thrown = TRUE]

\* cb(err, data); cb() is Callback(g, None, NoData).
Callback(g, err, data) ==
    [g EXCEPT !.pc = "done",
              !.cbs = Append(@, [err |-> err, data |-> data])]

ClientCall(g, name, method, arg) ==
    [g EXCEPT !.pc = "client",
              !.calls = Append(@, [client |-> name, method |-> method,
                                   arg |-> arg])]

\* The methods of GcpClient (GcpClient.js:111-240).
GcpMethods ==
    {"put", "get", "delete", "checkGcpHealth", "objectPutTagging",
     "objectDeleteTagging"}

\* Whether the client of a location has a method: read off the source for
\* a GCP client, either way for the clients that are not part of it.
MayHave(location, method) ==
    IF ~HasClient(location) THEN {FALSE}
    ELSE IF clients[location].clientType = "gcp"
    THEN {method \in GcpMethods}
    ELSE BOOLEAN

\* part_003:13-45: the put up to client.put.
put(g, location, tagging) ==
    IF ~HasClient(location) THEN [g EXCEPT !.pc = "tick"]
    ELSE IF tagging # None /\ ParseTagIsError(tagging)
    THEN Callback(g, "InternalError", NoData)
    ELSE ClientCall(g, location, "put", None)

\* part_003:70-76 and 87-93
ClientOf(objectGetInfo) ==
    IF objectGetInfo.form = "string" THEN "legacy"
    ELSE objectGetInfo.dataStoreName

\* A gateway that hands every client the retrieval info as it got it.
PassedAsGiven(objectGetInfo, type) ==
    IF objectGetInfo.form = "string" THEN "key" ELSE "objectGetInfo"

\* part_003:77-80 and 94-97: key for a scality client, objectGetInfo for
\* any other; a bare string is its own key.
Passed(objectGetInfo, type) ==
    IF type = "scality" \/ objectGetInfo.form = "string"
    THEN "key" ELSE "objectGetInfo"

\* part_003:66-81 (get) and 83-98 (delete)
getOrDelete(g, objectGetInfo) ==
    LET name == ClientOf(objectGetInfo)
        g1 == [g EXCEPT !.location = name, !.info = objectGetInfo]
    IN  IF ~HasClient(name) THEN TypeError(g1)
        ELSE ClientCall(g1, name, g.op,
                        Passed(objectGetInfo, clients[name].clientType))

\* part_003:155-163
createMPU(g, location) ==
    IF ~HasClient(location) THEN TypeError(g)
    ELSE IF clients[location].clientType = "aws_s3"
    THEN ClientCall(g, location, "createMPU", None)
    ELSE Callback(g, None, NoData)

\* part_003:165-174
uploadPart(g, location, has) ==
    IF ~HasClient(location) THEN TypeError(g)
    ELSE IF has THEN ClientCall(g, location, "uploadPart", None)
    ELSE Callback(g, None, NoData)

\* part_003:176-185
listParts(g, location, has) ==
    IF ~HasClient(location) THEN TypeError(g)
    ELSE IF has THEN ClientCall(g, location, "listParts", None)
    ELSE Callback(g, None, NoData)

\* part_003:187-200
completeMPU(g, location) ==
    IF ~HasClient(location) THEN TypeError(g)
    ELSE IF clients[location].clientType = "aws_s3"
    THEN ClientCall(g, location, "completeMPU", None)
    ELSE Callback(g, None, NoData)

\* A gateway that has every backend's data deleted after an abort.
SkipDataDeleteNever(type) == FALSE

\* part_003:204
SkipDataDelete(type) == type = "azure"

\* part_003:202-217
abortMPU(g, location, has) ==
    IF ~HasClient(location) THEN TypeError(g)
    ELSE IF SkipDataDelete(clients[location].clientType)
    THEN Callback(g, None, [NoData EXCEPT !.kind = "skipDataDelete"])
    ELSE IF has THEN ClientCall(g, location, "abortMPU", None)
    ELSE Callback(g, None, NoData)

\* part_003:219-227; method is "Put" or "Delete"
objectTagging(g, method, dataStoreName, has) ==
    IF HasClient(dataStoreName) /\ has
    THEN ClientCall(g, dataStoreName,
                    IF method = "Put" THEN "objectPutTagging"
                    ELSE "objectDeleteTagging", None)
    ELSE Callback(g, None, NoData)

\* A copyObject that answers like listParts where the client cannot copy.
copyObjectSilent(g, location, has) ==
    IF ~HasClient(location) THEN TypeError(g)
    ELSE IF has THEN ClientCall(g, location, "copyObject", None)
    ELSE Callback(g, None, NoData)

\* part_003:230-247
copyObject(g, location, has) ==
    IF ~HasClient(location) THEN TypeError(g)
    ELSE IF has THEN ClientCall(g, location, "copyObject", None)
    ELSE Callback(g, "NotImplemented", NoData)

\* part_003:248-259
uploadPartCopy(g, location, has) ==
    IF ~HasClient(location) THEN TypeError(g)
    ELSE IF has THEN ClientCall(g, location, "uploadPartCopy", None)
    ELSE Callback(g, "NotImplemented", NoData)

\* The retrieval record of part_003:54-58 and 236-240.
DataRetrievalInfo(location) ==
    [kind |-> "dataRetrievalInfo", dataStoreName |-> location,
     dataStoreType |-> clients[location].clientType]

\* The callback the gateway gave the client, or the caller's own callback
\* where the gateway passed it on: part_003:46-63 (put), 190-197
\* (completeMPU), 208-214 (abortMPU), 235-242 (copyObject).
ClientAnswer(g, ok) ==
    LET err == IF ok THEN None ELSE "ClientError"
        g1 == [g EXCEPT !.answer = IF ok THEN "ok" ELSE "err"]
    IN  CASE g.op = "put" ->
               IF ok THEN Callback(g1, None, DataRetrievalInfo(g.location))
               ELSE Callback(g1, "InternalError", NoData)
          [] g.op = "copyObject" ->
               Callback(g1, err, DataRetrievalInfo(g.location))
          [] g.op = "abortMPU" -> Callback(g1, err, NoData)
          [] OTHER ->
               Callback(g1, err, IF ok THEN [NoData EXCEPT !.kind = "client"]
                                 ELSE NoData)

\* The locations whose client is of a type.
OfType(type) == {n \in ClientNames : clients[n].clientType = type}

\* part_003:106-125: the types that get { code: 200, message: 'OK' } unprobed.
Unprobed(type) == type \notin {"scality", "aws_s3", "azure"}

\* The entry of a probe: its result, or its error (part_003:107-116,
\* wrapper.js:260-276, GcpClient.js:189-198).
ProbeEntry(ok) == IF ok THEN "result" ELSE "error"

\* A health check that probes every location of a type.
PickAll(array) == {array}

\* part_003:129-146: none of an empty array, else one of it at
\* random.
PickOne(array) == IF array = {} THEN {{}} ELSE {{n} : n \in array}

ExternalProbes ==
    {a \cup z : a \in PickOne(OfType("aws_s3")),
                z \in PickOne(OfType("azure"))}

\* A health check that hands its callback the error of a probe.
HealthErrorOfProbe(failed) == IF failed # {} THEN "InternalError" ELSE None

\* part_003:150, wrapper.js:256, 266, 270 and 276, GcpClient.js:193 and
\* 198: the error handed to the callback of a health check.
HealthError(failed) == None

HealthDone(g) ==
    Callback(g, HealthError(g.failed), [NoData EXCEPT !.kind = "health"])

\* part_003:100-124: the scality clients are probed, the clients of the
\* other internal types get their entry at once.
healthcheck(g) ==
    [g EXCEPT !.pc = "health", !.phase = "each",
              !.pending = OfType("scality"), !.probed = OfType("scality"),
              !.resp = [n \in HealthNames |->
                          IF n \in ClientNames
                             /\ Unprobed(clients[n].clientType)
                          THEN "default" ELSE None]]

\* part_003:125-147: the probes of the chosen external locations start; with
\* none to probe the response is returned.
Parallel(g, probes) ==
    IF probes = {} THEN HealthDone(g)
    ELSE [g EXCEPT !.phase = "parallel", !.pending = probes,
                   !.probed = @ \cup probes]

\* A probe answers: its entry goes under its own name.
Answered(g, name, ok) ==
    [g EXCEPT !.pending = @ \ {name},
              !.resp[name] = ProbeEntry(ok),
              !.failed = IF ok THEN @ ELSE @ \cup {name}]

\* checkAWSHealth and checkAzureHealth of a client, which the source does
\* not hold: as the contract of a probe has it and as checkGcpHealth does
\* (GcpClient.js:185-200), never an error, but the result or the error
\* under the location the probe was given.
checkExternalHealth(g, location, ok) == Answered(g, location, ok)

Begin(op, location, has) ==
    [GwIdle EXCEPT !.op = op, !.location = location, !.has = has]

GatewayIdle == gw.pc = "idle" /\ implName = "multipleBackends"

GatewayPut ==
    /\ GatewayIdle
    /\ \E location \in ClientNames \cup {Unregistered},
          tagging \in {None} \cup TagQueries :
          gw' = put(Begin("put", location, TRUE), location, tagging)
    /\ UNCHANGED <<implName, store, nextKey, records, ds, bd, bb, ncalls,
                   mdstore, delb, sweep, vs>>

\* part_003:22-24
GatewayPutNoClient ==
    /\ gw.pc = "tick"
    /\ gw' = Callback(gw, "InternalError", NoData)
    /\ UNCHANGED <<implName, store, nextKey, records, ds, bd, bb, ncalls,
                   mdstore, delb, sweep, vs>>

\* The retrieval infos a caller may hold.
GetInfos ==
    [form : {"string"}, dataStoreName : {None}] \cup
    [form : {"record"}, dataStoreName : ClientNames \cup {Unregistered}]

GatewayGet ==
    /\ GatewayIdle
    /\ \E objectGetInfo \in GetInfos :
          gw' = getOrDelete(Begin("get", None, TRUE), objectGetInfo)
    /\ UNCHANGED <<implName, store, nextKey, records, ds, bd, bb, ncalls,
                   mdstore, delb, sweep, vs>>

GatewayDelete ==
    /\ GatewayIdle
    /\ \E objectGetInfo \in GetInfos :
          gw' = getOrDelete(Begin("delete", None, TRUE), objectGetInfo)
    /\ UNCHANGED <<implName, store, nextKey, records, ds, bd, bb, ncalls,
                   mdstore, delb, sweep, vs>>

CreateMPU ==
    /\ GatewayIdle
    /\ \E location \in ClientNames \cup {Unregistered} :
          gw' = createMPU(Begin("createMPU", location,
                                HasClient(location)), location)
    /\ UNCHANGED <<implName, store, nextKey, records, ds, bd, bb, ncalls,
                   mdstore, delb, sweep, vs>>

UploadPart ==
    /\ GatewayIdle
    /\ \E location \in ClientNames \cup {Unregistered} :
       \E has \in MayHave(location, "uploadPart") :
          gw' = uploadPart(Begin("uploadPart", location, has), location, has)
    /\ UNCHANGED <<implName, store, nextKey, records, ds, bd, bb, ncalls,
                   mdstore, delb, sweep, vs>>

ListParts ==
    /\ GatewayIdle
    /\ \E location \in ClientNames \cup {Unregistered} :
       \E has \in MayHave(location, "listParts") :
          gw' = listParts(Begin("listParts", location, has), location, has)
    /\ UNCHANGED <<implName, store, nextKey, records, ds, bd, bb, ncalls,
                   mdstore, delb, sweep, vs>>

CompleteMPU ==
    /\ GatewayIdle
    /\ \E location \in ClientNames \cup {Unregistered} :
          gw' = completeMPU(Begin("completeMPU", location,
                                  HasClient(location)), location)
    /\ UNCHANGED <<implName, store, nextKey, records, ds, bd, bb, ncalls,
                   mdstore, delb, sweep, vs>>

AbortMPU ==
    /\ GatewayIdle
    /\ \E location \in ClientNames \cup {Unregistered} :
       \E has \in MayHave(location, "abortMPU") :
          gw' = abortMPU(Begin("abortMPU", location, has), location, has)
    /\ UNCHANGED <<implName, store, nextKey, records, ds, bd, bb, ncalls,
                   mdstore, delb, sweep, vs>>

\* objectMD of an object written before records named their location has
\* no dataStoreName.
ObjectTagging ==
    /\ GatewayIdle
    /\ \E method \in {"Put", "Delete"},
          dataStoreName \in ClientNames \cup {Unregistered, None} :
       \E has \in MayHave(dataStoreName,
                          IF method = "Put" THEN "objectPutTagging"
                          ELSE "objectDeleteTagging") :
          gw' = objectTagging(Begin("objectTagging", dataStoreName, has),
                              method, dataStoreName, has)
    /\ UNCHANGED <<implName, store, nextKey, records, ds, bd, bb, ncalls,
                   mdstore, delb, sweep, vs>>

CopyObject ==
    /\ GatewayIdle
    /\ \E location \in ClientNames \cup {Unregistered} :
       \E has \in MayHave(location, "copyObject") :
          gw' = copyObject(Begin("copyObject", location, has), location, has)
    /\ UNCHANGED <<implName, store, nextKey, records, ds, bd, bb, ncalls,
                   mdstore, delb, sweep, vs>>

UploadPartCopy ==
    /\ GatewayIdle
    /\ \E location \in ClientNames \cup {Unregistered} :
       \E has \in MayHave(location, "uploadPartCopy") :
          gw' = uploadPartCopy(Begin("uploadPartCopy", location, has),
                               location, has)
    /\ UNCHANGED <<implName, store, nextKey, records, ds, bd, bb, ncalls,
                   mdstore, delb, sweep, vs>>

\* The client answers the method the gateway called.
ClientCallback(ok) ==
    /\ gw.pc = "client"
    /\ gw' = ClientAnswer(gw, ok)
    /\ UNCHANGED <<implName, store, nextKey, records, ds, bd, bb, ncalls,
                   mdstore, delb, sweep, vs>>

\* multipleBackendGateway.healthcheck is called (part_003:100-153).
Healthcheck ==
    /\ GatewayIdle
    /\ LET g == healthcheck(Begin("healthcheck", None, TRUE))
       IN  IF g.pending = {}
           THEN \E probes \in ExternalProbes : gw' = Parallel(g, probes)
           ELSE gw' = g
    /\ UNCHANGED <<implName, store, nextKey, records, ds, bd, bb, ncalls,
                   mdstore, delb, sweep, vs>>

\* data.checkHealth is called (wrapper.js:252-258): the gateway's
\* healthcheck, a single backend's own, or the default answer of a backend
\* without one.
CheckHealth ==
    /\ gw.pc = "idle"
    /\ IF implName = "multipleBackends"
       THEN LET g == healthcheck(Begin("checkHealth", None, TRUE))
            IN  IF g.pending = {}
                THEN \E probes \in ExternalProbes : gw' = Parallel(g, probes)
                ELSE gw' = g
       ELSE \E has \in BOOLEAN :
              LET g == Begin("checkHealth", implName, has)
              IN  gw' = IF has
                        THEN [g EXCEPT !.pc = "health", !.phase = "client",
                                       !.pending = {implName},
                                       !.probed = {implName}]
                        ELSE HealthDone([g EXCEPT
                                            !.resp[implName] = "default"])
    /\ UNCHANGED <<implName, store, nextKey, records, ds, bd, bb, ncalls,
                   mdstore, delb, sweep, vs>>

\* GcpClient.checkGcpHealth is called (GcpClient.js:185-188).
CheckGcpHealth ==
    /\ GatewayIdle
    /\ \E location \in OfType("gcp") :
          gw' = [Begin("checkGcpHealth", location, TRUE) EXCEPT
                    !.pc = "health", !.phase = "exist",
                    !.pending = {location}, !.probed = {location}]
    /\ UNCHANGED <<implName, store, nextKey, records, ds, bd, bb, ncalls,
                   mdstore, delb, sweep, vs>>

\* A scality client answers its healthcheck (part_003:106-118); after the
\* last of them the external probes are chosen and started.
ScalityHealthCallback(name, ok) ==
    /\ gw.pc = "health"
    /\ gw.phase = "each"
    /\ name \in gw.pending
    /\ LET g == Answered(gw, name, ok)
       IN  IF g.pending = {}
           THEN \E probes \in ExternalProbes : gw' = Parallel(g, probes)
           ELSE gw' = g
    /\ UNCHANGED <<implName, store, nextKey, records, ds, bd, bb, ncalls,
                   mdstore, delb, sweep, vs>>

\* checkAWSHealth or checkAzureHealth of the chosen client answers
\* (part_003:134 and 143); after the last of them the response is returned
\* (part_003:147-151), through data.checkHealth as it is
\* (wrapper.js:268-271).
ExternalHealthCallback(name, ok) ==
    /\ gw.pc = "health"
    /\ gw.phase = "parallel"
    /\ name \in gw.pending
    /\ LET g == checkExternalHealth(gw, name, ok)
       IN  gw' = IF g.pending = {} THEN HealthDone(g) ELSE g
    /\ UNCHANGED <<implName, store, nextKey, records, ds, bd, bb, ncalls,
                   mdstore, delb, sweep, vs>>

\* The healthcheck of a single backend answers (wrapper.js:259-277).
ClientHealthCallback(ok) ==
    /\ gw.pc = "health"
    /\ gw.phase = "client"
    /\ gw' = HealthDone(Answered(gw, implName, ok))
    /\ UNCHANGED <<implName, store, nextKey, records, ds, bd, bb, ncalls,
                   mdstore, delb, sweep, vs>>

\* this._client.exist answers (GcpClient.js:188-199).
GcpExistCallback(ok) ==
    /\ gw.pc = "health"
    /\ gw.phase = "exist"
    /\ gw' = HealthDone(Answered(gw, gw.location, ok))
    /\ UNCHANGED <<implName, store, nextKey, records, ds, bd, bb, ncalls,
                   mdstore, delb, sweep, vs>>

\* The requests a GcpClient may get, on a client of either configuration.
GcpRequests ==
    [bucketMatch : BOOLEAN, bucketName : Buckets, objectKey : ObjectKeys]

\* GcpClient.js:112-113
GcpPutKey(request) ==
    _createGcpKey(request.bucketName, request.objectKey, request.bucketMatch)

\* GcpClient.js:212 and 241: _createGcpKey(bucket, key), the third
\* argument left out; bucketMatch is then undefined and the test of
\* GcpClient.js:29 takes it for false.
GcpTaggingKey(request) ==
    _createGcpKey(request.bucketName, request.objectKey, FALSE)

\* GcpClient.put is called (GcpClient.js:111-121): the write stream on the
\* file is open.
GcpPut ==
    /\ GatewayIdle
    /\ \E request \in GcpRequests :
          gw' = [Begin("GcpClient.put", None, TRUE) EXCEPT
                    !.pc = "gcp", !.request = request,
                    !.gcpKey = GcpPutKey(request)]
    /\ UNCHANGED <<implName, store, nextKey, records, ds, bd, bb, ncalls,
                   mdstore, delb, sweep, vs>>

\* GcpClient.objectPutTagging or objectDeleteTagging is called
\* (GcpClient.js:211-218, 240-247): setMetadata on the file is running.
GcpObjectTagging ==
    /\ GatewayIdle
    /\ \E request \in GcpRequests,
          op \in {"GcpClient.objectPutTagging",
                  "GcpClient.objectDeleteTagging"} :
          gw' = [Begin(op, None, TRUE) EXCEPT
                    !.pc = "gcp", !.request = request,
                    !.gcpKey = GcpTaggingKey(request)]
    /\ UNCHANGED <<implName, store, nextKey, records, ds, bd, bb, ncalls,
                   mdstore, delb, sweep, vs>>

\* The write stream finishes or fails (GcpClient.js:122-132), setMetadata
\* answers (GcpClient.js:218-228, 247-257).
GcpCallback(ok) ==
    /\ gw.pc = "gcp"
    /\ gw' = IF ok
             THEN Callback(gw, None,
                           IF gw.op = "GcpClient.put"
                           THEN [NoData EXCEPT !.kind = "key"] ELSE NoData)
             ELSE Callback(gw, "InternalError", NoData)
    /\ UNCHANGED <<implName, store, nextKey, records, ds, bd, bb, ncalls,
                   mdstore, delb, sweep, vs>>

\* GcpClient.get is called (GcpClient.js:143-153, part_002:83-96): the read
\* stream is created with its 'error' listener and handed to the callback
\* at once.
GcpGet ==
    /\ GatewayIdle
    /\ \E request \in GcpRequests :
          gw' = [Callback([Begin("GcpClient.get", None, TRUE) EXCEPT
                              !.request = request,
                              !.gcpKey = GcpPutKey(request)],
                          None, [NoData EXCEPT !.kind = "stream"])
                 EXCEPT !.pc = "stream"]
    /\ UNCHANGED <<implName, store, nextKey, records, ds, bd, bb, ncalls,
                   mdstore, delb, sweep, vs>>

\* The read stream ends, or emits 'error' and the listener of
\* GcpClient.js:146-151 runs.
GcpReadStreamEvent(ok) ==
    /\ gw.pc = "stream"
    /\ gw' = IF ok THEN [gw EXCEPT !.pc = "done"]
             ELSE Callback(gw, "InternalError", NoData)
    /\ UNCHANGED <<implName, store, nextKey, records, ds, bd, bb, ncalls,
                   mdstore, delb, sweep, vs>>

\* The caller has its answer, or the exception.
GatewayReturn ==
    /\ gw.pc = "done"
    /\ gw' = GwIdle
    /\ UNCHANGED <<implName, store, nextKey, records, ds, bd, bb, ncalls,
                   mdstore, delb, sweep, vs>>

---------------------------------------------------------------------------
\* Versions, delete markers and copy.  The object API is not among the
\* sources; its functional test is
\* (tests/functional/aws-node-sdk/test/versioning/objectCopy.js).  The
\* requests below are those of that test, on a source key of a
\* versioning-enabled bucket, and they answer as specified for the API.
\*
\* vs
\*   source    the versions of the source key, oldest first: the version
\*             id and the delete-marker flag of each
\*   dest      the versions of the source key a copy has written to the
\*             destination key
\*   last      the last request: its operation, the versionId of its
\*             CopySource, its error code, and the DeleteMarker and
\*             VersionId of its response
NoRequest ==
    [op |-> None, versionId |-> None, code |-> None, DeleteMarker |-> None,
     VersionId |-> None]

NoVersions == [source |-> <<>>, dest |-> {}, last |-> NoRequest]

\* No version: what stands for a version the key does not have.
NoVersion == [versionId |-> None, isDeleteMarker |-> FALSE]

\* The latest version of the key, or NoVersion.
Tip(source) == IF source = <<>> THEN NoVersion ELSE source[Len(source)]

\* The version of the key with an id, or NoVersion.
VersionOf(source, versionId) ==
    IF \E i \in DOMAIN source : source[i].versionId = versionId
    THEN source[CHOOSE i \in DOMAIN source : source[i].versionId = versionId]
    ELSE NoVersion

\* A copy that takes a delete marker named by its version id for a source.
CopySourceErrorOfTip(source, versionId) ==
    IF versionId = None /\ (Tip(source) = NoVersion \/ Tip(source).isDeleteMarker)
    THEN "NoSuchKey"
    ELSE IF versionId # None /\ VersionOf(source, versionId) = NoVersion
    THEN "NoSuchVersion"
    ELSE None

\* What a copy answers for its source: NoSuchKey for a key without a
\* version or with a delete marker as its latest version, InvalidRequest
\* for a delete marker named by its version id
\* (objectCopy.js:688-743).
CopySourceError(source, versionId) ==
    IF versionId = None
    THEN IF Tip(source) = NoVersion \/ Tip(source).isDeleteMarker
         THEN "NoSuchKey" ELSE None
    ELSE IF VersionOf(source, versionId) = NoVersion THEN "NoSuchVersion"
    ELSE IF VersionOf(source, versionId).isDeleteMarker
    THEN "InvalidRequest"
    ELSE None

\* A new version of the key: its id is that of no earlier version.
NewVersion(source, isDeleteMarker) ==
    [versionId |-> ToString(Len(source) + 1),
     isDeleteMarker |-> isDeleteMarker]

\* putObject on the source key (objectCopy.js:89-103).
ObjectPut ==
    /\ Len(vs.source) < MaxVersions
    /\ LET v == NewVersion(vs.source, FALSE)
       IN  vs' = [vs EXCEPT !.source = Append(@, v),
                            !.last = [NoRequest EXCEPT
                                         !.op = "putObject",
                                         !.VersionId = v.versionId]]
    /\ UNCHANGED <<implName, store, nextKey, records, ds, bd, bb, ncalls,
                   mdstore, delb, gw, sweep>>

\* deleteObject on the source key without a version id
\* (objectCopy.js:701-708): a delete marker becomes the latest version.
ObjectDelete ==
    /\ Len(vs.source) < MaxVersions
    /\ LET v == NewVersion(vs.source, TRUE)
       IN  vs' = [vs EXCEPT !.source = Append(@, v),
                            !.last = [NoRequest EXCEPT
                                         !.op = "deleteObject",
                                         !.DeleteMarker = "true",
                                         !.VersionId = v.versionId]]
    /\ UNCHANGED <<implName, store, nextKey, records, ds, bd, bb, ncalls,
                   mdstore, delb, gw, sweep>>

\* copyObject to the destination key, its CopySource the source key with
\* or without a versionId (objectCopy.js:709-717, 733-741).
ObjectCopy ==
    /\ \E versionId \in {None} \cup {ToString(i) : i \in 1..MaxVersions} :
          LET code == CopySourceError(vs.source, versionId)
              v == IF versionId = None THEN Tip(vs.source)
                   ELSE VersionOf(vs.source, versionId)
          IN  vs' = [vs EXCEPT !.dest = IF code = None
                                        THEN @ \cup {v.versionId} ELSE @,
                               !.last = [NoRequest EXCEPT
                                            !.op = "copyObject",
                                            !.versionId = versionId,
                                            !.code = code]]
    /\ UNCHANGED <<implName, store, nextKey, records, ds, bd, bb, ncalls,
                   mdstore, delb, gw, sweep>>

---------------------------------------------------------------------------
Init ==
    /\ implName \in {"mem", "multipleBackends"}
    /\ store = {}
    /\ nextKey = 0
    /\ records = {}
    /\ ds = DsIdle
    /\ bd = BdIdle
    /\ bb = BbIdle
    /\ ncalls = 0
    /\ mdstore = PlainBucket
    /\ delb = DelIdle
    /\ gw = GwIdle
    /\ sweep = DelIdle
    /\ vs = NoVersions

Next ==
    \/ DataStore
    \/ DataPut
    \/ PutNoClient
    \/ \E ok \in BOOLEAN : ClientPutCallback(ok)
    \/ StreamHashed
    \/ BatchDelete
    \/ \E i \in 1..MaxBatch, ok \in BOOLEAN : DeleteCallback(i, ok)
    \/ Return

Spec == Init /\ [][Next]_vars

\* The replication route.  The stream dataStore gets from the route is the
\* HTTP request, which carries no contentMD5 property: no batchDelete ever
\* starts here, and the gateway always finds the client of a location that
\* passed the route's checks.
NextBackbeat ==
    \/ BBRequest
    \/ \E ok \in BOOLEAN : BBAuthCallback(ok)
    \/ \E err \in {None, "NoSuchBucket"},
          versioning \in {None, "Enabled", "Suspended"},
          objMdLocation \in {None, "old-location"} :
          BBMetadataCallback(err, versioning, objMdLocation)
    \/ \E payload \in Payloads, h \in MetadataHeaders :
          BBPayloadEnd(payload, h)
    \/ \E ok \in BOOLEAN : BBPutObjectMDCallback(ok)
    \/ \E valid \in BOOLEAN : BBBodyEnd(valid)
    \/ \E ok \in BOOLEAN : BBGatewayCallback(ok)
    \/ \E ok \in BOOLEAN : ClientPutCallback(ok)
    \/ StreamHashed
    \/ BBFinish

SpecBackbeat == Init /\ [][NextBackbeat]_vars

\* Bucket deletion: the bucket starts in any of its states.
InitBucket ==
    /\ implName = "multipleBackends"
    /\ store = {}
    /\ nextKey = 0
    /\ records = {}
    /\ ds = DsIdle
    /\ bd = BdIdle
    /\ bb = BbIdle
    /\ ncalls = 0
    /\ mdstore \in BucketStates
    /\ delb = DelIdle
    /\ gw = GwIdle
    /\ sweep = DelIdle
    /\ vs = NoVersions

\* The answers of the metadata layer and of the KMS.
MdErrors == {None, "InternalError"}

NextBucket ==
    \/ DeleteBucket
    \/ \E err \in MdErrors : ListObjectCallback(err)
    \/ \E err \in MdErrors : ListMPUCallback(err)
    \/ \E err \in MdErrors : DeleteMPUbucketCallback(err)
    \/ \E err \in MdErrors : UpdateBucketCallback(err)
    \/ \E err \in MdErrors : DeleteObjectMDCallback(err)
    \/ \E err \in MdErrors : DeleteObjectMDOldCallback(err)
    \/ \E err \in MdErrors : DeleteBucketCallback(err)
    \/ \E err \in MdErrors : DestroyBucketKeyCallback(err)
    \/ InvisiblyDelete
    \/ \E performed \in BOOLEAN : Stop(performed)
    \/ DeleteReturn
    \/ EmptyBucket

SpecBucket == InitBucket /\ [][NextBucket]_vars

\* The metadata layer and the KMS answer every call, so every callback
\* that is due runs.
CallbackDue ==
    \E err \in MdErrors :
        \/ ListObjectCallback(err)
        \/ ListMPUCallback(err)
        \/ DeleteMPUbucketCallback(err)
        \/ UpdateBucketCallback(err)
        \/ DeleteObjectMDCallback(err)
        \/ DeleteObjectMDOldCallback(err)
        \/ DeleteBucketCallback(err)
        \/ DestroyBucketKeyCallback(err)

SpecBucketFair == SpecBucket /\ WF_vars(CallbackDue)

\* deleteBucket with an invisiblyDelete of the same bucket beside it: the
\* callbacks of the two calls run in any order.
NextBeside ==
    \/ DeleteBucket
    \/ \E err \in MdErrors : ListObjectCallback(err)
    \/ \E err \in MdErrors : ListMPUCallback(err)
    \/ \E err \in MdErrors : DeleteMPUbucketCallback(err)
    \/ \E err \in MdErrors : UpdateBucketCallback(err)
    \/ \E err \in MdErrors : DeleteObjectMDCallback(err)
    \/ \E err \in MdErrors : DeleteObjectMDOldCallback(err)
    \/ \E err \in MdErrors : DeleteBucketCallback(err)
    \/ \E err \in MdErrors : DestroyBucketKeyCallback(err)
    \/ InvisiblyDeleteBeside
    \/ \E err \in MdErrors : BesideDeleteObjectMDCallback(err)
    \/ \E err \in MdErrors : BesideDeleteObjectMDOldCallback(err)
    \/ \E err \in MdErrors : BesideDeleteBucketCallback(err)
    \/ BesideReturn

SpecBeside == InitBucket /\ [][NextBeside]_vars

\* The deletion of an object of MaxParts parts, each put earlier.
InitBatch ==
    /\ implName \in {"mem", "multipleBackends"}
    /\ store = {ObjOf(Parts[i]) : i \in 1..MaxParts}
    /\ nextKey = MaxParts
    /\ records = {Parts[i] : i \in 1..MaxParts}
    /\ ds = DsIdle
    /\ bd = BdIdle
    /\ bb = BbIdle
    /\ ncalls = 0
    /\ mdstore = PlainBucket
    /\ delb = DelIdle
    /\ gw = GwIdle
    /\ sweep = DelIdle
    /\ vs = NoVersions

NextBatch ==
    \/ BatchDeleteParts
    \/ \E i \in 1..MaxParts, ok \in BOOLEAN : DeleteCallback(i, ok)
    \/ Return

SpecBatch == InitBatch /\ [][NextBatch]_vars

\* Requests on the versions of one key.
InitCopy ==
    /\ implName = "multipleBackends"
    /\ store = {}
    /\ nextKey = 0
    /\ records = {}
    /\ ds = DsIdle
    /\ bd = BdIdle
    /\ bb = BbIdle
    /\ ncalls = 0
    /\ mdstore = PlainBucket
    /\ delb = DelIdle
    /\ gw = GwIdle
    /\ sweep = DelIdle
    /\ vs = NoVersions

NextCopy ==
    \/ ObjectPut
    \/ ObjectDelete
    \/ ObjectCopy

SpecCopy == InitCopy /\ [][NextCopy]_vars

\* The gateway and the health checks, on each of the data backends the
\* server may be configured with.
InitGateway ==
    /\ implName \in {"mem", "file", "multipleBackends"}
    /\ store = {}
    /\ nextKey = 0
    /\ records = {}
    /\ ds = DsIdle
    /\ bd = BdIdle
    /\ bb = BbIdle
    /\ ncalls = 0
    /\ mdstore = PlainBucket
    /\ delb = DelIdle
    /\ gw = GwIdle
    /\ sweep = DelIdle
    /\ vs = NoVersions

NextGateway ==
    \/ GatewayPut
    \/ GatewayPutNoClient
    \/ GatewayGet
    \/ GatewayDelete
    \/ CreateMPU
    \/ UploadPart
    \/ ListParts
    \/ CompleteMPU
    \/ AbortMPU
    \/ ObjectTagging
    \/ CopyObject
    \/ UploadPartCopy
    \/ \E ok \in BOOLEAN : ClientCallback(ok)
    \/ Healthcheck
    \/ CheckHealth
    \/ CheckGcpHealth
    \/ \E name \in ClientNames, ok \in BOOLEAN :
          ScalityHealthCallback(name, ok)
    \/ \E name \in ClientNames, ok \in BOOLEAN :
          ExternalHealthCallback(name, ok)
    \/ \E ok \in BOOLEAN : ClientHealthCallback(ok)
    \/ \E ok \in BOOLEAN : GcpExistCallback(ok)
    \/ GcpPut
    \/ GcpObjectTagging
    \/ \E ok \in BOOLEAN : GcpCallback(ok)
    \/ GcpGet
    \/ \E ok \in BOOLEAN : GcpReadStreamEvent(ok)
    \/ GatewayReturn

SpecGateway == InitGateway /\ [][NextGateway]_vars

---------------------------------------------------------------------------
\* Properties of data.batchDelete and data.delete (Spec).

\* The overwrite-skip condition of a record, as the spec states it: the
\* request is a PUT, the record lies on an external backend, and at the
\* location the new object goes to.
MeetsSkipCondition(rec) ==
    /\ bd.requestMethod = "PUT"
    /\ rec.dataStoreType \in {"aws_s3", "azure", "gcp"}
    /\ rec.dataStoreName = bd.newObjDataStoreName

\* C1: in batchDelete with request method PUT, no delete is issued to any
\* backend for a record whose dataStoreType is external and whose
\* dataStoreName is the new object's location.
C1_SkippedRecordNeverDeleted ==
    \A i \in DOMAIN bd.locations :
        MeetsSkipCondition(bd.locations[i]) => bd.calls[i] = 0

\* C2: every entry of a batch that does not itself meet the skip condition
\* gets a delete attempt, also when the first entry of the batch meets it.
C2_OtherEntriesGetDelete ==
    bd.pc = "done" =>
        \A i \in DOMAIN bd.locations :
            ~MeetsSkipCondition(bd.locations[i]) => bd.calls[i] >= 1

\* C3: data.delete calls the client's delete at most three times for one
\* record; a call that succeeds is the last one and success is reported;
\* InternalError is reported only after three failed calls.  (count[i] is
\* the number of failed calls for entry i, calls[i] the number of calls.)
C3_DeleteRetries ==
    \A i \in DOMAIN bd.st :
        /\ bd.calls[i] <= 3
        /\ bd.st[i] = "new" => bd.calls[i] = 0
        /\ bd.st[i] = "run" => bd.calls[i] = bd.count[i] + 1
        /\ bd.st[i] = "ok" => bd.calls[i] = bd.count[i] + 1
        /\ bd.st[i] = "err" => bd.calls[i] = 3 /\ bd.count[i] = 3

\* A record was deleted by the third call, and another delete of the same
\* batch gave up after three failed calls.
C3_Witness ==
    /\ \E i \in DOMAIN bd.st : bd.st[i] = "ok" /\ bd.calls[i] = 3
    /\ \E i \in DOMAIN bd.st : bd.st[i] = "err"

---------------------------------------------------------------------------
\* Properties of dataStore and data.put (Spec).

\* The record of the call in progress names the object the call wrote.
ClientKeyOfCall ==
    IF ds.info.dataStoreType \in {"aws_s3", "azure", "gcp"}
    THEN _createGcpKey(ds.bucketName, ds.objectKey,
                       locationConstraints[ds.loc].bucketMatch)
    ELSE <<ToString(nextKey)>>

\* C4: a PUT through dataStore whose Content-MD5 differs from the MD5 of
\* the written bytes ends with BadDigest, and a delete is issued for the
\* record just written and for no other; the overwrite-skip policy does
\* not suppress it.
C4_BadDigestDeletesWrite ==
    /\ (/\ ds.pc = "done"
        /\ ds.backend = "ok"
        /\ ds.contentMD5 # None
        /\ ds.contentMD5 # MD5(ds.body)) => ds.result = "BadDigest"
    /\ ds.result = "BadDigest" =>
          /\ ds.info.key = ClientKeyOfCall
          /\ bd.locations = <<ds.info>>
          /\ ~bd.skipped
          /\ bd.calls[1] >= 1

\* BadDigest for an object written to an external backend, and the delete
\* of its record has been issued.
C4_Witness ==
    /\ ds.result = "BadDigest"
    /\ ds.info.dataStoreType \in {"aws_s3", "azure", "gcp"}
    /\ bd.locations = <<ds.info>>
    /\ bd.calls[1] >= 1

\* C7: data.put calls its caller back with the record, and so dataStore
\* runs its Content-MD5 check, only after the backend put has reported
\* success and the MD5 of the stream is complete.
C7_CallbackAfterPutAndHash ==
    (ds.cbs > 0 /\ ds.result \in {"ok", "BadDigest"}) =>
        /\ ds.cbBackend = "ok"
        /\ ds.cbHash = MD5(ds.body)
        /\ ObjOf(ds.info) \in store \/ bd.pc # "idle"

\* The callback ran in a call whose backend put finished before the hash.
C7_Witness ==
    ds.cbs = 1 /\ ds.result = "ok" /\ ds.first = "backend"

---------------------------------------------------------------------------
\* Properties of the replication route (SpecBackbeat).

BackendEvents ==
    {"client.put", "client.delete", "client.createMPU", "client.uploadPart",
     "client.completeMPU"}

\* The request made a call to a backend client.
BackendTouched ==
    \/ \E i \in DOMAIN bb.trace : bb.trace[i] \in BackendEvents
    \/ ds.pc # "idle"

\* C5: a request that ends with BadDigest after its data was written is
\* followed by a delete of the written record, on the routes data and
\* multiplebackenddata putobject too.
C5_RouteBadDigestDeletesWrite ==
    (bb.status = "BadDigest" /\ ds.backend = "ok") =>
        /\ bd.locations = <<ds.info>>
        /\ bd.calls[1] >= 1

\* C6: when no PUT or DELETE is in flight, every retrieval record returned
\* by a successful PUT and not yet deleted names an existing backend
\* object, and every backend object is named by exactly one such record.
C6_RecordsMatchObjects ==
    NothingInFlight =>
        /\ \A r \in records : ObjOf(r) \in store
        /\ \A o \in store : Cardinality({r \in records : ObjOf(r) = o}) = 1

\* The location named by x-scal-storage-class is configured, its type is
\* x-scal-storage-type and its bucket is the bucket of the request.
Coherent ==
    /\ bb.h.storageClass \in LocNames
    /\ locationConstraints[bb.h.storageClass].type = bb.h.storageType
    /\ locationConstraints[bb.h.storageClass].bucketName = bb.bucketName

\* The request lacks a header its operation requires.
LacksRequiredHeader ==
    \/ bb.h.storageType = None
    \/ bb.h.storageClass = None
    \/ bb.operation \in {"putobject", "initiatempu"} /\ bb.h.versionId = None
    \/ bb.operation = "putobject" /\ bb.h.canonicalId = None
    \/ bb.operation = "putobject" /\ bb.h.contentMD5 = None
    \/ bb.operation = "putpart" /\ bb.h.partNumber = None
    \/ bb.operation \in {"putpart", "completempu"} /\ bb.h.uploadId = None

\* A multiplebackenddata handler has run on the request.
MultiHandled ==
    bb.resourceType = "multiplebackenddata" /\ bb.handler # None

\* C8: a multiplebackenddata request performs no backend operation unless
\* the location named by x-scal-storage-class is configured, has the type
\* x-scal-storage-type and the bucket of the request; a request that
\* carries its required headers and fails this is answered InvalidRequest,
\* whatever the operation.
C8_LocationCoherence ==
    bb.resourceType = "multiplebackenddata" =>
        /\ BackendTouched => Coherent
        /\ (MultiHandled /\ ~LacksRequiredHeader /\ ~Coherent) =>
              bb.status = "InvalidRequest"

\* The scenario of the spec: initiatempu announcing aws_s3 for a location of
\* another type is answered InvalidRequest.
C8_Witness ==
    /\ bb.operation = "initiatempu"
    /\ bb.handler = "initiateMultipartUpload"
    /\ bb.h.storageType = "aws_s3"
    /\ bb.h.storageClass = "gcp-test"
    /\ bb.status = "InvalidRequest"

\* C9: a multiplebackenddata request that lacks a header required for its
\* operation is answered BadRequest before any backend operation.
C9_MissingHeaderRejected ==
    (MultiHandled /\ LacksRequiredHeader) =>
        /\ bb.status = "BadRequest"
        /\ ~BackendTouched

\* A putobject without content-md5, all other headers present and the
\* location coherent, was answered BadRequest.
C9_Witness ==
    /\ bb.handler = "putObject"
    /\ bb.h.contentMD5 = None
    /\ bb.h.versionId # None
    /\ bb.h.canonicalId # None
    /\ Coherent
    /\ bb.status = "BadRequest"

\* The steps of a request that read or write data or metadata, or look up
\* the route, or run a handler: everything but doAuth.
AfterAuth(e) == e # "doAuth"

\* C10: authentication comes first, and a request whose authentication
\* failed goes no further: no bucket lookup, no route lookup, no handler,
\* no data or metadata read or written.
C10_AuthFirst ==
    /\ \A i \in DOMAIN bb.trace :
          AfterAuth(bb.trace[i]) =>
              /\ i > 1
              /\ bb.trace[1] = "doAuth"
              /\ bb.auth = "ok"
    /\ bb.handler # None => bb.auth = "ok"
    /\ BackendTouched => bb.auth = "ok"
    /\ bb.auth = "denied" =>
          /\ bb.status = "AccessDenied"
          /\ bb.trace = <<"doAuth">>
          /\ bb.mdPut.versioning = FALSE

\* A request for a multiplebackenddata putobject was denied.
C10_Witness ==
    /\ bb.auth = "denied"
    /\ bb.status = "AccessDenied"
    /\ bb.resourceType = "multiplebackenddata"
    /\ bb.operation = "putobject"
    /\ bb.method = "PUT"

---------------------------------------------------------------------------
\* Properties of the data and metadata routes (SpecBackbeat).

\* The request is a PUT on the data or the metadata route, and the bucket
\* lookup has answered without error.
OnDataOrMetadataRoute ==
    /\ bb.resourceType \in {"data", "metadata"}
    /\ bb.method = "PUT"
    /\ \E i \in DOMAIN bb.trace : bb.trace[i] = "route"

\* The steps of a request that write object data or object metadata.
WriteEvents == {"client.put", "putObjectMD"}

\* C11: on the data and metadata routes, a request for a bucket whose
\* versioning configuration is absent or not 'Enabled' ('Suspended'
\* included) is answered InvalidBucketState, and neither object data nor
\* object metadata is written.
C11_VersioningRequired ==
    (OnDataOrMetadataRoute /\ bb.versioning # "Enabled") =>
        /\ bb.status = "InvalidBucketState"
        /\ bb.handler = None
        /\ \A i \in DOMAIN bb.trace : bb.trace[i] \notin WriteEvents
        /\ ds.pc = "idle"
        /\ bb.mdPut.versioning = FALSE

\* A PUT on the metadata route for a bucket with suspended versioning was
\* answered InvalidBucketState.
C11_Witness ==
    /\ OnDataOrMetadataRoute
    /\ bb.resourceType = "metadata"
    /\ bb.versioning = "Suspended"
    /\ bb.status = "InvalidBucketState"

\* The request is a metadata-only write whose payload is JSON.
MetadataOnly ==
    /\ bb.handler = "putMetadata"
    /\ bb.h.replicationContent = "METADATA"
    /\ bb.payload.location # "malformed"

\* C12: a metadata-route request with x-scal-replication-content METADATA
\* fails with ObjNotFound and writes nothing when the target object does
\* not exist; when it exists, the metadata handed to the metadata layer
\* equals the payload in every field except location, which is the
\* location of the existing object's metadata.
C12_MetadataOnlyKeepsLocation ==
    MetadataOnly =>
        /\ bb.objMdLocation = None =>
              /\ bb.status = "ObjNotFound"
              /\ \A i \in DOMAIN bb.trace : bb.trace[i] \notin WriteEvents
              /\ bb.mdPut.versioning = FALSE
        /\ (bb.objMdLocation # None /\ bb.pc \in {"mdput", "done"}) =>
              /\ bb.omVal.location = bb.objMdLocation
              /\ bb.omVal.versionId = bb.payload.versionId
              /\ bb.omVal.contentMd5 = bb.payload.contentMd5
              /\ bb.status = "200" =>
                    /\ bb.mdPut.location = bb.objMdLocation
                    /\ bb.mdPut.contentMd5 = bb.payload.contentMd5

\* A metadata-only write on an existing object succeeded; the payload named
\* another location than the object's.
C12_Witness ==
    /\ MetadataOnly
    /\ bb.status = "200"
    /\ bb.objMdLocation = "old-location"
    /\ bb.payload.location = "src-location"
    /\ bb.mdPut.location = "old-location"

\* C13: every successful write on the metadata route whose payload carries
\* the source version id v stores the object metadata as a new version
\* with versionId v: versioning is forced on and the id is the request's,
\* never an unversioned overwrite, never a generated id.
C13_ReplicaKeepsVersionId ==
    (/\ bb.handler = "putMetadata"
     /\ bb.status = "200"
     /\ bb.payload.versionId # None) =>
        /\ bb.mdPut.versioning = TRUE
        /\ bb.mdPut.versionId = bb.payload.versionId

\* A full (not metadata-only) replica write of version v1 succeeded.
C13_Witness ==
    /\ bb.handler = "putMetadata"
    /\ bb.status = "200"
    /\ bb.h.replicationContent = None
    /\ bb.payload.versionId = "v1"
    /\ bb.mdPut.versionId = "v1"

---------------------------------------------------------------------------
\* Properties of the multiplebackenddata operations (SpecBackbeat).

\* The data wrapper dispatches to the gateway (config.backends.data is
\* 'multiple'), and a putobject has passed its checks and called dataStore.
PutObjectStoring ==
    /\ implName = "multipleBackends"
    /\ bb.handler = "putObject"
    /\ ds.caller = "putObject"

\* The key context and the target of the put of a putobject.
PutObjectContext ==
    PutObjectStoring =>
        /\ ds.loc = bb.h.storageClass
        /\ ds.bucketName = bb.bucketName
        /\ ds.objectKey = bb.objectKey
        /\ ds.metaHeaders.replicationStatus = "REPLICA"
        /\ ds.metaHeaders.versionId = bb.h.versionId
        /\ bb.h.versionId # None
        /\ ds.backend = "ok" =>
              ds.info.dataStoreName = bb.h.storageClass

\* The objects a step stores lie at the location the request names.
PutObjectStoresAtLocation ==
    (implName = "multipleBackends" /\ bb.handler = "putObject") =>
        \A o \in store' \ store : o.loc = bb.h.storageClass

C15_ResponseBodies ==
    /\ bb.status = "200" =>
          CASE bb.handler = "putObject" -> JSONKeys(bb.reply) = {"versionId"}
            [] bb.handler = "putData" ->
                  JSONKeys(bb.reply) = {"key", "dataStoreName"}
            [] bb.handler = "initiateMultipartUpload" ->
                  JSONKeys(bb.reply) = {"uploadId"}
            [] bb.handler = "putPart" ->
                  JSONKeys(bb.reply) = {"partNumber", "ETag"}
            [] bb.handler = "completeMultipartUpload" ->
                  JSONKeys(bb.reply) = {}
            [] OTHER -> TRUE
    /\ (MultiHandled /\ Coherent /\ ~LacksRequiredHeader) =>
          bb.status # "TypeError"
    /\ (/\ bb.handler = "completeMultipartUpload"
        /\ bb.pc = "done"
        /\ \E i \in DOMAIN bb.trace : bb.trace[i] = "client.completeMPU") =>
          bb.status \in {"200", "InternalError"}

---------------------------------------------------------------------------
\* Properties of bucket deletion (SpecBucket, SpecBucketFair).

\* A deleteBucket call is running or has just ended or stopped.
InDeleteBucket == delb.fn = "deleteBucket"

\* The call is running or has ended: nothing but the call touches the store.
CallOwnsStore == delb.pc \notin {"idle", "stopped"}

\* The bucket held a version or a delete marker when the call started.
HeldObjects == delb.before.versions + delb.before.deleteMarkers > 0

\* C16: deleteBucket on a bucket that holds at least one version or
\* delete marker fails with BucketNotEmpty and changes nothing (no deleted
\* flag, shadow MPU bucket, users-bucket entry and bucket metadata as they
\* were); on the empty bucket, without uploads in progress, the call
\* succeeds and the bucket metadata is gone.  (Calls in which the metadata
\* layer itself fails end with that failure.)
C16_BucketNotEmpty ==
    InDeleteBucket =>
        /\ (HeldObjects /\ CallOwnsStore) =>
              /\ mdstore = delb.before
              /\ ~mdstore.deleted
              /\ Len(delb.stages) = 1
        /\ (HeldObjects /\ delb.pc = "done" /\ ~delb.failure) =>
              delb.result = "BucketNotEmpty"
        /\ (/\ ~HeldObjects
            /\ delb.before.overview = 0
            /\ delb.pc = "done"
            /\ ~delb.failure) =>
              /\ delb.result = "ok"
              /\ ~mdstore.bucket
              /\ ~mdstore.entry

\* The scenario of the spec: deleteBucket succeeded on the emptied bucket
\* after it had failed with BucketNotEmpty.
C16_Witness ==
    /\ InDeleteBucket
    /\ delb.pc = "done"
    /\ delb.result = "ok"
    /\ delb.last = "BucketNotEmpty"
    /\ ~mdstore.bucket

\* C17: deleteBucket on an empty bucket whose shadow MPU bucket lists an
\* object under 'overview' fails with MPUinProgress and leaves the bucket
\* metadata, the shadow MPU bucket and the users-bucket entry unchanged; a
\* missing shadow MPU bucket is no upload in progress and the pipeline
\* goes on.
C17_MPUinProgress ==
    (InDeleteBucket /\ ~HeldObjects) =>
        /\ (delb.before.overview > 0 /\ CallOwnsStore) =>
              /\ mdstore = delb.before
              /\ Len(delb.stages) <= 2
        /\ (delb.before.overview > 0 /\ delb.pc = "done" /\ ~delb.failure) =>
              delb.result = "MPUinProgress"
        /\ (~delb.before.mpuBucket /\ Len(delb.outcomes) >= 2) =>
              /\ delb.outcomes[2] # "MPUinProgress"
              /\ delb.outcomes[2] = None => Len(delb.stages) >= 3
              /\ delb.outcomes[2] # None => delb.failure
        /\ (~delb.before.mpuBucket /\ delb.pc = "done" /\ ~delb.failure) =>
              delb.result = "ok"

\* The call failed with MPUinProgress and the shadow MPU bucket is there.
C17_Witness ==
    /\ InDeleteBucket
    /\ delb.pc = "done"
    /\ delb.result = "MPUinProgress"
    /\ mdstore.mpuBucket
    /\ mdstore = delb.before

\* C18: deleteBucket runs its stages in the order emptiness check,
\* in-flight MPU check, mark deleted, detach from the users bucket, delete
\* the bucket metadata; a stage starts only after the one before it has
\* succeeded, and the first failing stage ends the call with its error
\* and no later stage runs.
C18_StagesInOrder ==
    InDeleteBucket =>
        /\ Len(delb.stages) \in 1..Len(Stages)
        /\ delb.stages = SubSeq(Stages, 1, Len(delb.stages))
        /\ Len(delb.outcomes) \in {Len(delb.stages) - 1, Len(delb.stages)}
        /\ \A i \in 1..(Len(delb.stages) - 1) : delb.outcomes[i] = None
        /\ delb.pc = "done" =>
              /\ Len(delb.outcomes) = Len(delb.stages)
              /\ delb.result = "ok" =>
                    /\ Len(delb.stages) = Len(Stages)
                    /\ delb.outcomes[Len(delb.outcomes)] = None
              /\ delb.result # "ok" =>
                    delb.outcomes[Len(delb.outcomes)] = delb.result
        /\ CallOwnsStore =>
              /\ mdstore.mpuBucket # delb.before.mpuBucket =>
                    Len(delb.stages) >= 2
              /\ mdstore.deleted => Len(delb.stages) >= 3
              /\ mdstore.entry # delb.before.entry => Len(delb.stages) >= 4
              /\ ~mdstore.bucket => Len(delb.stages) = 5

\* The detach stage failed: the call ended with its error, the bucket
\* metadata is still there, marked deleted.
C18_Witness ==
    /\ InDeleteBucket
    /\ delb.pc = "done"
    /\ delb.result = "InternalError"
    /\ Len(delb.stages) = 4
    /\ mdstore.bucket
    /\ mdstore.deleted

InvisiblyDeleting ==
    delb.fn = "invisiblyDelete" /\ delb.pc \notin {"idle", "done"}

C20_InvisibleDeleteReplays ==
    (delb.fn = "invisiblyDelete" /\ delb.pc = "done" /\ ~delb.failure) =>
        /\ delb.result = "ok"
        /\ delb.stages = SubSeq(Stages, 4, 5)
        /\ ~mdstore.entry
        /\ ~mdstore.bucket
        /\ delb.before.sse = "AES256" => ~mdstore.masterKey

\* The detach stage of the call (of deleteBucket or invisiblyDelete) is
\* over; its place among the stages of the call.
DetachStage == StageIndex("deleteUserBucketEntryStep") -
               StageIndex(delb.stages[1]) + 1

DetachOver == delb.pc # "idle" /\ Len(delb.outcomes) >= DetachStage

C22_KeyDestroyedLast ==
    (InDeleteBucket /\ CallOwnsStore) =>
        /\ (\/ delb.pc = "destroyBucketKey"
            \/ mdstore.masterKey # delb.before.masterKey) =>
              /\ ~mdstore.bucket
              /\ delb.before.sse = "AES256"
              /\ Len(delb.stages) = 5
        /\ (/\ delb.before.sse = "AES256"
            /\ delb.pc = "done"
            /\ delb.result = "ok") => ~mdstore.masterKey
        /\ delb.before.sse # "AES256" =>
              mdstore.masterKey = delb.before.masterKey

\* The bucket with AES256 encryption is deleted and its key destroyed.
C22_Witness ==
    /\ InDeleteBucket
    /\ delb.pc = "done"
    /\ delb.result = "ok"
    /\ delb.before.sse = "AES256"
    /\ delb.before.masterKey
    /\ ~mdstore.masterKey

\* The put in progress went through the gateway to a registered location
\* with a tag query that is not well formed.
MalformedTaggingPut ==
    /\ implName = "multipleBackends"
    /\ ds.pc # "idle"
    /\ HasClient(ds.loc)
    /\ ds.tagging = "k==v&"

\* C24: a gateway put whose keyContext.tagging is a malformed tag query
\* fails with an error and client.put is never called for it, so that the
\* call writes no object to any backend: it is answered at once, once, and
\* has neither a backend answer nor a retrieval record.
C24_MalformedTaggingRejected ==
    MalformedTaggingPut =>
        /\ ds.pc = "done"
        /\ ds.backend = "tagerr"
        /\ ds.result = "InternalError"
        /\ ds.cbs = 1
        /\ ds.info = NoInfo
        /\ ds.first = None

\* A put with a malformed tag query has been answered.
C24_Witness ==
    /\ MalformedTaggingPut
    /\ ds.pc = "done"
    /\ ds.result = "InternalError"

\* The gateway operations that look a client up by the location they are
\* given.
ClientOperations ==
    {"put", "get", "delete", "createMPU", "uploadPart", "listParts",
     "completeMPU", "abortMPU", "copyObject", "uploadPartCopy"}

\* One of them was called with a location no client is registered for.
MissingClient ==
    /\ gw.op \in ClientOperations
    /\ gw.location \notin ClientNames

\* C23: every gateway operation (put, get, delete, createMPU, uploadPart,
\* listParts, completeMPU, abortMPU, copyObject, uploadPartCopy) called
\* with a location for which no client is registered ends with
\* InternalError delivered through its callback and makes no backend call.
C23_MissingClientInternalError ==
    (MissingClient /\ gw.pc = "done") =>
        /\ ~gw.thrown
        /\ gw.cbs = <<[err |-> "InternalError", data |-> NoData]>>
        /\ gw.calls = <<>>

\* C25: gateway get and delete send a bare-string retrieval info to the
\* legacy client with the string as key, and a record to the client
\* registered under the record's dataStoreName; a scality client gets the
\* bare key, any other client the full record; exactly one client is
\* called per operation.
C25_GetDeleteDispatch ==
    (gw.op \in {"get", "delete"} /\ gw.pc \in {"client", "done"}
        /\ ~gw.thrown) =>
        /\ Len(gw.calls) = 1
        /\ gw.calls[1].method = gw.op
        /\ gw.info.form = "string" =>
              /\ gw.calls[1].client = "legacy"
              /\ gw.calls[1].arg = "key"
        /\ gw.info.form = "record" =>
              /\ gw.calls[1].client = gw.info.dataStoreName
              /\ gw.calls[1].arg =
                    IF clients[gw.info.dataStoreName].clientType = "scality"
                    THEN "key" ELSE "objectGetInfo"

\* A record of a scality location and a record of another location have
\* each reached their client.
C25_Witness ==
    /\ gw.op \in {"get", "delete"}
    /\ gw.pc = "done"
    /\ gw.info.form = "record"
    /\ gw.info.dataStoreName = "us-east-1"
    /\ gw.calls = <<[client |-> "us-east-1", method |-> gw.op,
                     arg |-> "key"]>>
    /\ Len(gw.cbs) = 1

\* C26: gateway copyObject and uploadPartCopy on a location whose client
\* lacks the capability end with NotImplemented and make no backend call;
\* when the client has the capability, copyObject returns a record whose
\* dataStoreName is the target location and whose dataStoreType is the
\* client's type.
C26_CopyNotImplemented ==
    (gw.op \in {"copyObject", "uploadPartCopy"} /\ gw.pc # "idle"
        /\ gw.location \in ClientNames) =>
        /\ ~gw.thrown
        /\ ~gw.has =>
              /\ gw.pc = "done"
              /\ gw.cbs = <<[err |-> "NotImplemented", data |-> NoData]>>
              /\ gw.calls = <<>>
        /\ (gw.has /\ gw.op = "copyObject" /\ gw.pc = "done") =>
              /\ Len(gw.cbs) = 1
              /\ gw.calls = <<[client |-> gw.location,
                               method |-> "copyObject", arg |-> None]>>
              /\ gw.cbs[1].data.dataStoreName = gw.location
              /\ gw.cbs[1].data.dataStoreType =
                    clients[gw.location].clientType

\* A copy on a location whose client cannot copy has been refused.
C26_Witness ==
    /\ gw.op = "copyObject"
    /\ gw.location \in ClientNames
    /\ ~gw.has
    /\ gw.pc = "done"
    /\ gw.cbs # <<>>

\* C27: gateway uploadPart and objectTagging on a location whose client
\* lacks the capability end with NotImplemented, like copyObject and
\* uploadPartCopy, and never report success without having done the
\* operation.
C27_PartAndTaggingNotImplemented ==
    (gw.op \in {"uploadPart", "objectTagging"} /\ gw.pc = "done"
        /\ gw.location \in ClientNames /\ ~gw.has) =>
        /\ Len(gw.cbs) = 1
        /\ gw.cbs[1].err = "NotImplemented"

\* C28: gateway abortMPU on a location of type azure never calls the
\* client and completes with skipDataDelete = true as second callback
\* argument; on every other client type it completes without a second
\* argument, after the client's abortMPU (when it has one) succeeded, or
\* with that call's error.
C28_AbortMPUSkipDataDelete ==
    (gw.op = "abortMPU" /\ gw.pc # "idle" /\ gw.location \in ClientNames) =>
        /\ ~gw.thrown
        /\ clients[gw.location].clientType = "azure" =>
              /\ gw.pc = "done"
              /\ gw.calls = <<>>
              /\ gw.cbs = <<[err |-> None,
                             data |-> [NoData EXCEPT
                                          !.kind = "skipDataDelete"]]>>
        /\ (clients[gw.location].clientType # "azure" /\ gw.pc = "done") =>
              /\ Len(gw.cbs) = 1
              /\ gw.cbs[1].data = NoData
              /\ gw.has =>
                    /\ gw.calls = <<[client |-> gw.location,
                                     method |-> "abortMPU", arg |-> None]>>
                    /\ gw.answer # None
                    /\ gw.cbs[1].err =
                          IF gw.answer = "ok" THEN None ELSE "ClientError"
              /\ ~gw.has =>
                    /\ gw.calls = <<>>
                    /\ gw.cbs[1].err = None
        /\ (clients[gw.location].clientType # "azure" /\ gw.pc # "done") =>
              gw.cbs = <<>>

\* An abort on the azure location has been answered.
C28_Witness ==
    /\ gw.op = "abortMPU"
    /\ gw.location = "azuretest"
    /\ gw.pc = "done"
    /\ gw.cbs # <<>>

\* The gateway's health check has returned its response.
GatewayHealthDone ==
    /\ gw.op \in {"healthcheck", "checkHealth"}
    /\ implName = "multipleBackends"
    /\ gw.pc = "done"

\* C29: one gateway healthcheck probes every scality location, exactly one
\* aws_s3 location when there is one and exactly one azure location when
\* there is one, records each probe result under the probed location's
\* name only, and reports every other location as {code: 200, message:
\* 'OK'} without probing it; so the result holds, for every registered
\* location, an entry for it or for another location of its type.
C29_HealthcheckProbes ==
    GatewayHealthDone =>
        /\ OfType("scality") \subseteq gw.probed
        /\ \A type \in {"aws_s3", "azure"} :
              Cardinality(gw.probed \cap OfType(type)) =
                  IF OfType(type) = {} THEN 0 ELSE 1
        /\ \A n \in ClientNames :
              /\ n \in gw.probed => gw.resp[n] \in {"result", "error"}
              /\ n \notin gw.probed =>
                    IF clients[n].clientType \in {"scality", "aws_s3", "azure"}
                    THEN gw.resp[n] = None
                    ELSE gw.resp[n] = "default"
              /\ \E m \in ClientNames :
                    /\ clients[m].clientType = clients[n].clientType
                    /\ gw.resp[m] # None
        /\ \A n \in HealthNames \ ClientNames : gw.resp[n] = None

\* Of two aws_s3 locations one was probed, the other has no entry.
C29_Witness ==
    /\ GatewayHealthDone
    /\ gw.resp["aws-test-2"] # None
    /\ gw.resp["aws-test"] = None
    /\ gw.resp["mem-test"] = "default"

\* A health check: of the gateway, of the data layer, of a GCP client.
HealthCheckOps == {"healthcheck", "checkHealth", "checkGcpHealth"}

\* C30: a health check never passes an error to its callback and calls
\* it exactly once, after every started probe has answered: a failing
\* probe of a location appears as an error entry under that location, and
\* the entries of the other locations are still returned; this holds for
\* the gateway healthcheck, for data.checkHealth and for a client's own
\* probe.
C30_HealthErrorsInBand ==
    (gw.op \in HealthCheckOps /\ gw.pc # "idle") =>
        /\ ~gw.thrown
        /\ gw.pc # "done" => gw.cbs = <<>>
        /\ gw.pc = "done" =>
              /\ gw.cbs = <<[err |-> None,
                             data |-> [NoData EXCEPT !.kind = "health"]]>>
              /\ gw.pending = {}
              /\ gw.failed \subseteq gw.probed
              /\ \A n \in gw.failed : gw.resp[n] = "error"
              /\ \A n \in gw.probed \ gw.failed : gw.resp[n] = "result"
              /\ (gw.op # "checkGcpHealth"
                    /\ implName = "multipleBackends") =>
                    \A n \in ClientNames :
                        Unprobed(clients[n].clientType) =>
                            gw.resp[n] = "default"

\* The gateway's health check has returned with one probe failed and
\* another one succeeded.
C30_Witness ==
    /\ GatewayHealthDone
    /\ gw.failed # {}
    /\ gw.probed \ gw.failed # {}
    /\ gw.cbs # <<>>

\* A GcpClient method that addresses a file by the object's name.
GcpAddressing ==
    /\ gw.op \in {"GcpClient.put", "GcpClient.objectPutTagging",
                  "GcpClient.objectDeleteTagging"}
    /\ gw.pc # "idle"

\* C31: for every object on a GCP location, put, objectPutTagging and
\* objectDeleteTagging address the same native key: objectKey alone when
\* the location's bucketMatch is true, and '{s3BucketName}/{objectKey}'
\* when it is false.
C31_GcpSameNativeKey ==
    GcpAddressing =>
        gw.gcpKey = IF gw.request.bucketMatch
                    THEN <<gw.request.objectKey>>
                    ELSE <<gw.request.bucketName, gw.request.objectKey>>

\* C37: GcpClient.get invokes its callback exactly once per call: either
\* with a readable stream or with InternalError, never with a stream first
\* and an error later when the read stream fails.
C37_GcpGetCallsBackOnce ==
    (gw.op = "GcpClient.get" /\ gw.pc # "idle") =>
        /\ Len(gw.cbs) = 1
        /\ \/ gw.cbs[1] = [err |-> None,
                           data |-> [NoData EXCEPT !.kind = "stream"]]
           \/ gw.cbs[1] = [err |-> "InternalError", data |-> NoData]

\* C35: data.put invokes its caller's callback exactly once for every
\* call: once with an error when the backend put fails, and otherwise once
\* with the retrieval record, in each order of the backend put completing
\* and the stream hash completing, and also when no stream is given.
C35_PutCallsBackOnce ==
    /\ ds.cbs <= 1
    /\ ds.pc = "put" => ds.cbs = 0
    /\ ds.pc = "done" =>
          /\ ds.cbs = 1
          /\ ds.cbBackend = ds.backend
          /\ ds.backend \in {"ok", "err", "noclient", "tagerr"}
          /\ ds.backend = "ok" =>
                /\ ds.result \in {"ok", "BadDigest"}
                /\ ds.info # NoInfo
                /\ ds.body # None => ds.cbHash = MD5(ds.body)
          /\ ds.backend # "ok" =>
                /\ ds.result = "InternalError"
                /\ ds.info = NoInfo

\* The callback ran once in a call whose stream hash finished before the
\* backend put.
C35_Witness ==
    /\ ds.pc = "done"
    /\ ds.cbs = 1
    /\ ds.result = "ok"
    /\ ds.first = "hash"

\* The entries of the batch whose delete is in flight.
InFlight == {i \in DOMAIN bd.st : bd.st[i] = "run"}

\* C32: during batchDelete at most 5 record deletions are in flight at
\* any moment, whatever the batch size, the number of retries of each
\* record and the order in which backend deletes complete.
C32_FiveInFlight == Cardinality(InFlight) <= 5

\* A batch of more than 5 records with 5 deletes in flight, the last
\* record among them, after a retry and a completion.
C32_Witness ==
    /\ Len(bd.locations) > 5
    /\ Cardinality(InFlight) = 5
    /\ Len(bd.locations) \in InFlight
    /\ \E i \in DOMAIN bd.st : bd.st[i] = "ok" /\ bd.count[i] > 0

\* C36: in batchDelete, once the delete of one record has failed after
\* all its retries, no delete is started for the records of the batch
\* that were not yet started, so those records stay on the backend;
\* deletes already in flight still run to their end.
C36_NoStartAfterFailure ==
    /\ [](bd.failed =>
            /\ \E i \in DOMAIN bd.st :
                  bd.st[i] = "err" /\ bd.count[i] = MAX_RETRY + 1
            /\ \A i \in DOMAIN bd.st :
                  bd.st[i] = "new" =>
                      /\ bd.calls[i] = 0
                      /\ ObjOf(bd.locations[i]) \in store
            /\ InFlight # {} => bd.pc = "running")
    /\ [][(bd.failed /\ bd'.locations = bd.locations) =>
            /\ bd'.failed
            /\ \A i \in DOMAIN bd.st :
                  /\ bd.st[i] = "new" => bd'.st[i] = "new"
                  /\ bd.st[i] = "run" => bd'.st[i] \in {"run", "ok", "err"}
         ]_vars

\* A batch has ended after a failure with a record never started.
C36_Witness ==
    /\ bd.pc = "done"
    /\ bd.failed
    /\ \E i \in DOMAIN bd.st : bd.st[i] = "new"
    /\ \E i \in DOMAIN bd.st : bd.st[i] = "ok"

\* The mark stage of the deleteBucket call in progress has succeeded.
Marked ==
    /\ delb.fn = "deleteBucket"
    /\ Len(delb.outcomes) >= 3
    /\ delb.outcomes[3] = None

\* C34: after the mark stage of deleteBucket, and in every later state,
\* the bucket metadata never carries both the transient flag and the
\* deleted flag: the update that sets the deleted flag removes the
\* transient flag.
C34_NeverTransientAndDeleted ==
    /\ ~(mdstore.transient /\ mdstore.deleted)
    /\ Marked => (mdstore.deleted /\ ~mdstore.transient)
    /\ (delb.pc = "stopped" /\ delb.stopped >= 3) =>
           (mdstore.deleted /\ ~mdstore.transient)

\* deleteBucket of a transient bucket is past its mark stage.
C34_Witness ==
    /\ Marked
    /\ delb.before.transient
    /\ mdstore.deleted
    /\ ~mdstore.transient

\* deleteBucket is in its detach stage or in the deletion of the bucket
\* metadata.
DetachOrDeletion ==
    /\ delb.fn = "deleteBucket"
    /\ delb.pc \in {"deleteObjectMD", "deleteObjectMDOld", "deleteBucket"}

\* C38: if deleteBucket fails at the detach stage or at the deletion of
\* the bucket metadata, the caller gets the error, and the bucket metadata
\* is as the mark stage left it: still there, with the deleted flag.
C38_FailureKeepsDeletedFlag ==
    [][(/\ DetachOrDeletion
        /\ delb'.pc = "done"
        /\ delb'.outcomes[Len(delb'.outcomes)] # None) =>
           (/\ delb'.result = delb'.outcomes[Len(delb'.outcomes)]
            /\ delb'.result \in {"InternalError", "NoSuchBucket"}
            /\ mdstore' = mdstore
            /\ mdstore'.bucket
            /\ mdstore'.deleted
            /\ ~mdstore'.transient)]_vars

\* deleteBucket has failed at the deletion of the bucket metadata, after
\* it removed the entry of the users bucket.
C38_Witness ==
    /\ Marked
    /\ delb.pc = "done"
    /\ Len(delb.outcomes) = 5
    /\ delb.result = "InternalError"
    /\ delb.before.entry
    /\ ~mdstore.entry
    /\ mdstore.bucket
    /\ mdstore.deleted

\* The backend objects a putobject for the bucket, object key and storage
\* class of the request in progress writes.
WrittenByPutObject ==
    {o \in store : /\ o.loc = bb.h.storageClass
                   /\ o.key = ClientKey(o.loc, bb.bucketName, bb.objectKey)}

\* C40: after a successful multiplebackenddata putobject and then a
\* successful multiplebackenddata deleteobject for the same bucket, object
\* key and storage class, the backend holds no object that the putobject
\* wrote.
C40_DeleteRemovesPutObject ==
    (/\ bb.handler = "deleteObject"
     /\ bb.pc = "done"
     /\ bb.status = "200"
     /\ bb.prev = [handler |-> "putObject", bucketName |-> bb.bucketName,
                   objectKey |-> bb.objectKey,
                   storageClass |-> bb.h.storageClass, status |-> "200"]) =>
        WrittenByPutObject = {}

\* deleteBucket and the invisiblyDelete beside it are both over, and
\* neither the metadata layer nor the KMS failed.
BothOver ==
    /\ delb.fn = "deleteBucket"
    /\ delb.pc = "done"
    /\ sweep.pc = "done"
    /\ ~delb.failure
    /\ ~sweep.failure

\* C39: when invisiblyDelete runs beside a deleteBucket that has marked
\* the bucket deleted, then however their steps interleave the entry of
\* the users bucket and the bucket metadata end up removed, deleteBucket
\* reports success, and the KMS master key of an AES256 bucket is
\* destroyed.
C39_InterleavedDeleteSucceeds ==
    BothOver =>
        /\ ~mdstore.entry
        /\ ~mdstore.bucket
        /\ delb.result = "ok"
        /\ delb.before.sse = "AES256" => ~mdstore.masterKey

\* The delete marker that a DELETE has made the latest version of the key.
TipDeleteMarker ==
    IF Tip(vs.source).isDeleteMarker THEN Tip(vs.source) ELSE NoVersion

\* C33: when a DELETE has made a delete marker the latest version of a
\* key, a COPY that names the delete marker's version id answers
\* InvalidRequest, a COPY of the key without a version id answers
\* NoSuchKey, and neither writes the delete marker to the destination.
C33_DeleteMarkerNotCopied ==
    /\ \A i \in DOMAIN vs.source :
           vs.source[i].isDeleteMarker => vs.source[i].versionId \notin vs.dest
    /\ (TipDeleteMarker # NoVersion /\ vs.last.op = "copyObject") =>
           /\ vs.last.versionId = TipDeleteMarker.versionId =>
                  vs.last.code = "InvalidRequest"
           /\ vs.last.versionId = None => vs.last.code = "NoSuchKey"

\* After a PUT and a DELETE, a COPY has named the delete marker's version
\* id, and nothing is at the destination.
C33_Witness ==
    /\ Len(vs.source) = 2
    /\ ~vs.source[1].isDeleteMarker
    /\ TipDeleteMarker # NoVersion
    /\ vs.last.op = "copyObject"
    /\ vs.last.versionId = TipDeleteMarker.versionId
    /\ vs.last.code = "InvalidRequest"
    /\ vs.dest = {}

====
